---- MODULE Spec2Model ----
(***************************************************************************)
(* Model of the grouping-and-reconciliation engine:                        *)
(*   - the rule merger of pipeline.py (step4 priority merge, the 'all'     *)
(*     merge, gemini_semantic_merge_no_pdf, gemini_intelligent_merge);     *)
(*   - the grouping assembler emit_groups_and_recodes of                   *)
(*     Scripts/step3_emit_groups.py;                                       *)
(*   - the backend response parsers of the step2 and step3 grouping        *)
(*     scripts and of the questionnaire extraction;                        *)
(*   - the grouped-output assembly of step3b and of step3 grouping;        *)
(*   - step4 of pipeline.py as a process: spawn, wait, read, merge;        *)
(*   - the polling loops that wait for an uploaded file;                   *)
(*   - the retry protocols of the step2 and step3 grouping scripts.        *)
(*                                                                         *)
(* Encoding of Python values.  A CSV cell is a string.  Python's None is   *)
(* the reserved string NoneVal, the key None under which csv.DictReader    *)
(* files surplus cells is RestKey; no cell of the model equals either.     *)
(* A row dict is a function from a set of keys to values.                  *)
(***************************************************************************)
EXTENDS Integers, Sequences, FiniteSets, TLC

VARIABLES
    csv_header,     \* header line shared by the candidate CSV files
    gemini_csv,     \* candidate table files: [exists, rows (raw cell rows)]
    claude_csv,
    openai_csv,
    command,        \* which merge ran: "none", "step4", "step4-gemini-merge", "all", "intelligent"
    resp,           \* what the backend call produced (semantic strategies)
    merged,         \* the in-memory row dicts handed to the CSV writer
    out_merged,     \* the merged output file: [exists, rows (five text cells each)]
    rc_merge,       \* return code of the semantic merge function (-1: not called)
    raised,         \* an exception left the merge uncaught
    grouped_items,  \* input list of emit_groups_and_recodes
    min_columns,    \* its keyword argument
    emitted,        \* its return value: [called, groups, recodings]
    invocations,    \* how many times emit_groups_and_recodes has been called
    response_text,  \* the text attribute of a backend response (characters)
    parser,         \* which response parser ran: "none", "step2", "step3", "strict"
    parsed,         \* its outcome: [ok, ty, src, text, cand]
    llm_groups,     \* group descriptors handed to the assembly
    full_meta,      \* the metadata list
    assembler,      \* which assembly ran: "none", "step3b", "step3"
    final_items,    \* the assembled list
    asm_raised,     \* an exception left the assembly
    s4_pc,          \* step4: where main stands ("idle": step4 not run as a process)
    opus,           \* step4: out_claude is set (--opus-project and --out-claude given)
    gemini_merge,   \* step4: args.gemini_merge
    procs,          \* step4: the list procs, names of the spawned backends
    proc,           \* step4: per backend [st, code, opened]
    waited,         \* step4: how many entries of procs have been waited for
    rc_overall,     \* step4: the return code
    rows_g,         \* step4: g_rows, c_rows, o_rows as read_rows returned them
    rows_c,
    rows_o,
    poll_loop,      \* which upload-polling loop runs
    poll_pc,        \* "idle", "polling", or how the loop ended
    now,            \* seconds on the clock since start = time.time()
    polls,          \* calls of client.files.get made
    file_state,     \* the state the last call returned
    s2_pc,          \* step2 grouping: position in the retry protocol
    model_name,     \* step2 grouping: the model of the first call
    args_fallback,  \* step2 grouping: args.fallback
    s2_calls,       \* step2 grouping: the models called, in order
    s2_data,        \* step2 grouping: the list given to json.dump
    s2_exit,        \* step2 grouping: exit status (-1: running)
    s2_written,     \* step2 grouping: args.output was written
    s3_pc,          \* step3 grouping: position in the retry loop
    s3_attempts,    \* step3 grouping: the outcome of each attempt made
    s3_exit,        \* step3 grouping: exit status (-1: running)
    s3_written      \* step3 grouping: args.output was written

mergeVars == <<csv_header, gemini_csv, claude_csv, openai_csv, command, resp,
               merged, out_merged, rc_merge, raised>>
emitVars == <<grouped_items, min_columns, emitted, invocations>>
parseVars == <<response_text, parser, parsed>>
assembleVars == <<llm_groups, full_meta, assembler, final_items, asm_raised>>
step4Vars == <<s4_pc, opus, gemini_merge, procs, proc, waited, rc_overall,
               rows_g, rows_c, rows_o>>
pollVars == <<poll_loop, poll_pc, now, polls, file_state>>
step2Vars == <<s2_pc, model_name, args_fallback, s2_calls, s2_data, s2_exit, s2_written>>
step3Vars == <<s3_pc, s3_attempts, s3_exit, s3_written>>
ctlVars == <<step4Vars, pollVars, step2Vars, step3Vars>>
vars == <<mergeVars, emitVars, parseVars, assembleVars, ctlVars>>

(***************************************************************************)
(* Bounds of the model.                                                    *)
(***************************************************************************)
MaxRows == 3        \* candidate rows over the three tables (priority merge)
SemMaxRows == 2     \* candidate rows over the three tables (semantic merge)
MaxResp == 2        \* elements of the array the backend returns
MaxItems == 2       \* entries of the list given to emit_groups_and_recodes
MaxText == 4        \* characters of an enumerated response text
MaxGroups == 2      \* group descriptors handed to the assembly
MaxMeta == 3        \* entries of the metadata list
MaxInvocations == 2 \* calls of emit_groups_and_recodes in one behaviour
MaxBackendRows == 1 \* rows a backend process writes to its table
MaxClock == 250     \* seconds after which the model stops the clock of a polling loop
MaxS2Items == 2     \* elements of the list a step2 grouping response parses to

(***************************************************************************)
(* Python / csv module primitives.                                         *)
(***************************************************************************)
NoneVal == "<None>"
RestKey == "<restkey>"
RestList == "<list>"

header == <<"Question", "Constraint", "Input Questions", "Relationship", "Comment">>
Fields == {header[i] : i \in 1..Len(header)}

\* dict.get(k, default): the default only when the key is absent.
Get(d, k, default) == IF k \in DOMAIN d THEN d[k] ELSE default

\* csv.DictReader.__next__: zip the header with the cells; a short row gets
\* restval (None) for the remaining keys, a long row gets its surplus cells
\* as a list under restkey (None).
DictReaderRow(fieldnames, row) ==
    LET lf == Len(fieldnames)
        lr == Len(row)
        pos(k) == CHOOSE i \in 1..lf : fieldnames[i] = k
        named == [k \in {fieldnames[i] : i \in 1..lf} |->
                     IF pos(k) <= lr THEN row[pos(k)] ELSE NoneVal]
    IN  IF lf < lr THEN named @@ (RestKey :> RestList) ELSE named

\* main.read_rows (step4) and read_rows3 ('all'): every DictReader row as is;
\* any exception (no such file, path None) gives the empty list.
read_rows(file) ==
    IF file.exists
    THEN [i \in 1..Len(file.rows) |-> DictReaderRow(csv_header, file.rows[i])]
    ELSE <<>>

\* csv.writer writes None as the empty cell.
Cell(v) == IF v = NoneVal THEN "" ELSE v

\* csv.DictWriter._dict_to_list: ValueError when the dict has a key that is
\* no fieldname (extrasaction='raise'); a missing key is written as restval "".
HasExtras(r) == \E k \in DOMAIN r : k \notin Fields
WriteRowText(r) == [i \in 1..Len(header) |-> Cell(Get(r, header[i], ""))]

FirstBad(rows) ==
    IF \E i \in 1..Len(rows) : HasExtras(rows[i])
    THEN CHOOSE i \in 1..Len(rows) :
            HasExtras(rows[i]) /\ \A j \in 1..(i - 1) : ~HasExtras(rows[j])
    ELSE Len(rows) + 1

\* open(path, "w"); writeheader(); writerow(r) for each r.  The file exists
\* with its header as soon as it is opened; rows before a failing writerow
\* stay in the file.
write_rows(rows) ==
    [file |-> [exists |-> TRUE,
               rows |-> [i \in 1..(FirstBad(rows) - 1) |-> WriteRowText(rows[i])]],
     raised |-> FirstBad(rows) <= Len(rows)]

NoFile == [exists |-> FALSE, rows |-> <<>>]

(***************************************************************************)
(* Rule identity key and the deterministic priority merge.                 *)
(***************************************************************************)
\* Mutant of KeyOf: the Comment taken into the key.
KeyOfWithComment(r) ==
    <<Get(r, "Question", ""), Get(r, "Constraint", ""),
      Get(r, "Input Questions", ""), Get(r, "Relationship", ""),
      Get(r, "Comment", "")>>

\* key = (r.get("Question",""), r.get("Constraint",""),
\*        r.get("Input Questions",""), r.get("Relationship",""))
KeyOf(r) ==
    <<Get(r, "Question", ""), Get(r, "Constraint", ""),
      Get(r, "Input Questions", ""), Get(r, "Relationship", "")>>

\* Mutant of Project: Relationship filled from the wrong column.
ProjectMiscopied(r) ==
    [k \in Fields |-> IF k = "Relationship" THEN Get(r, "Constraint", "")
                      ELSE Get(r, k, "")]

\* The five-field dict appended by the step4 merge loops.
Project(r) ==
    [k \in Fields |-> Get(r, k, "")]

\* Mutant of SimpleMergeLoop: seen.add(key) forgotten.
RECURSIVE SimpleMergeLoopNoSeen(_, _, _)
SimpleMergeLoopNoSeen(rows, seen, acc) ==
    IF rows = <<>> THEN acc
    ELSE IF KeyOf(Head(rows)) \in seen
    THEN SimpleMergeLoopNoSeen(Tail(rows), seen, acc)
    ELSE SimpleMergeLoopNoSeen(Tail(rows), seen, Append(acc, Project(Head(rows))))

\* step4 without --gemini-merge: for r in (g_rows + c_rows + o_rows): skip a
\* seen key, else remember it and append the projected row.
RECURSIVE SimpleMergeLoop(_, _, _)
SimpleMergeLoop(rows, seen, acc) ==
    IF rows = <<>> THEN acc
    ELSE LET r == Head(rows)
             key == KeyOf(r)
         IN  IF key \in seen
             THEN SimpleMergeLoop(Tail(rows), seen, acc)
             ELSE SimpleMergeLoop(Tail(rows), seen \cup {key}, Append(acc, Project(r)))

\* the 'all' command: same walk, but the row read is appended unprojected.
RECURSIVE AllMergeLoop(_, _, _)
AllMergeLoop(rows, seen, acc) ==
    IF rows = <<>> THEN acc
    ELSE LET r == Head(rows)
             key == KeyOf(r)
         IN  IF key \in seen
             THEN AllMergeLoop(Tail(rows), seen, acc)
             ELSE AllMergeLoop(Tail(rows), seen \cup {key}, Append(acc, r))

(***************************************************************************)
(* Inputs: raw CSV rows.                                                   *)
(***************************************************************************)
HdrFull == header
HdrNoComment == SubSeq(header, 1, 4)
Headers == {HdrFull, HdrNoComment}

RowA1 == <<"Q1", "skip", "A,B", "hide", "c1">>
RowA2 == <<"Q1", "skip", "A,B", "hide", "c2">>       \* same rule, other comment
RowSwap == <<"Q1", "skip", "B,A", "hide", "c1">>     \* input list reordered
RowShort == <<"Q1", "skip", "A,B", "hide">>          \* no Comment cell
RowLong == <<"Q2", "skip", "A,B", "hide", "c1", "x">> \* one surplus cell
RawRows == {RowA1, RowA2, RowSwap, RowShort, RowLong}

RECURSIVE SeqsUpTo(_, _)
SeqsUpTo(S, n) ==
    IF n = 0 THEN {<<>>}
    ELSE LET shorter == SeqsUpTo(S, n - 1)
         IN  shorter \cup {Append(s, x) : s \in {t \in shorter : Len(t) = n - 1}, x \in S}

\* A candidate file holding the given rows; a file without rows may also be
\* absent (no such path, or the backend was not run).
FilesWith(rows) ==
    IF rows = <<>>
    THEN {NoFile, [exists |-> TRUE, rows |-> <<>>]}
    ELSE {[exists |-> TRUE, rows |-> rows]}

\* The same, a table without rows being always an absent file.
FilesOrAbsent(rows) ==
    IF rows = <<>> THEN {NoFile} ELSE {[exists |-> TRUE, rows |-> rows]}

\* The three candidate tables: at most n rows of the pool, dealt in order to
\* the Gemini, Claude and OpenAI files.
TablesInit(pool, n) ==
    \E s \in SeqsUpTo(pool, n) :
      \E i \in 0..Len(s) :
        \E j \in i..Len(s) :
            /\ gemini_csv \in FilesWith(SubSeq(s, 1, i))
            /\ claude_csv \in FilesWith(SubSeq(s, i + 1, j))
            /\ openai_csv \in FilesWith(SubSeq(s, j + 1, Len(s)))

HeaderOnly == [exists |-> TRUE, rows |-> <<>>]

TablesInitSem(pool, n) ==
    \/ \E s \in SeqsUpTo(pool, n) :
         \E i \in 0..Len(s) :
           \E j \in i..Len(s) :
               /\ gemini_csv \in FilesOrAbsent(SubSeq(s, 1, i))
               /\ claude_csv \in FilesOrAbsent(SubSeq(s, i + 1, j))
               /\ openai_csv \in FilesOrAbsent(SubSeq(s, j + 1, Len(s)))
    \/ /\ gemini_csv \in {NoFile, HeaderOnly}
       /\ claude_csv \in {NoFile, HeaderOnly}
       /\ openai_csv \in {NoFile, HeaderOnly}

NoResp == [kind |-> "none", data |-> <<>>]
NotEmitted == [called |-> FALSE, groups |-> <<>>, recodings |-> <<>>]

InitIdleEmit ==
    /\ grouped_items = <<>>
    /\ min_columns = 2
    /\ emitted = NotEmitted
    /\ invocations = 0

NoText == <<>>
NotParsed == [ok |-> FALSE, ty |-> "none", src |-> NoText, text |-> NoText,
              cand |-> [found |-> FALSE, str |-> NoText]]

InitIdleParse ==
    /\ response_text = NoText
    /\ parser = "none"
    /\ parsed = NotParsed

InitIdleAssemble ==
    /\ llm_groups = <<>>
    /\ full_meta = <<>>
    /\ assembler = "none"
    /\ final_items = <<>>
    /\ asm_raised = FALSE

Backends == {"gemini", "claude", "openai"}
NotSpawned == [st |-> "none", code |-> 0, opened |-> FALSE]

InitIdleStep4 ==
    /\ s4_pc = "idle"
    /\ opus = FALSE
    /\ gemini_merge = FALSE
    /\ procs = <<>>
    /\ proc = [b \in Backends |-> NotSpawned]
    /\ waited = 0
    /\ rc_overall = 0
    /\ rows_g = <<>>
    /\ rows_c = <<>>
    /\ rows_o = <<>>

InitIdlePoll ==
    /\ poll_loop = "none"
    /\ poll_pc = "idle"
    /\ now = 0
    /\ polls = 0
    /\ file_state = "none"

InitIdleStep2 ==
    /\ s2_pc = "idle"
    /\ model_name = "none"
    /\ args_fallback = FALSE
    /\ s2_calls = <<>>
    /\ s2_data = [src |-> "none", items |-> <<>>]
    /\ s2_exit = -1
    /\ s2_written = FALSE

InitIdleStep3 ==
    /\ s3_pc = "idle"
    /\ s3_attempts = <<>>
    /\ s3_exit = -1
    /\ s3_written = FALSE

InitIdleCtl == InitIdleStep4 /\ InitIdlePoll /\ InitIdleStep2 /\ InitIdleStep3

InitMergeState ==
    /\ command = "none"
    /\ resp = NoResp
    /\ merged = <<>>
    /\ out_merged = NoFile
    /\ rc_merge = -1
    /\ raised = FALSE

Init ==
    /\ csv_header \in Headers
    /\ TablesInit(RawRows, MaxRows)
    /\ InitMergeState
    /\ InitIdleEmit
    /\ InitIdleParse
    /\ InitIdleAssemble
    /\ InitIdleCtl

(***************************************************************************)
(* The deterministic merges.                                               *)
(***************************************************************************)
\* step4, args.gemini_merge false: merge, and write only when merged is
\* non-empty.
Step4SimpleMerge ==
    /\ command = "none"
    /\ LET g_rows == read_rows(gemini_csv)
           c_rows == read_rows(claude_csv)
           o_rows == read_rows(openai_csv)
           m == SimpleMergeLoop(g_rows \o c_rows \o o_rows, {}, <<>>)
           w == write_rows(m)
       IN  /\ merged' = m
           /\ out_merged' = IF m # <<>> THEN w.file ELSE out_merged
           /\ raised' = IF m # <<>> THEN w.raised ELSE FALSE
    /\ command' = "step4"
    /\ UNCHANGED <<csv_header, gemini_csv, claude_csv, openai_csv, resp, rc_merge>>
    /\ UNCHANGED <<emitVars, parseVars, assembleVars>>
    /\ UNCHANGED ctlVars

\* the 'all' command: merge and always write.
AllMerge ==
    /\ command = "none"
    /\ LET g_rows == read_rows(gemini_csv)
           c_rows == read_rows(claude_csv)
           o_rows == read_rows(openai_csv)
           m == AllMergeLoop(g_rows \o c_rows \o o_rows, {}, <<>>)
           w == write_rows(m)
       IN  /\ merged' = m
           /\ out_merged' = w.file
           /\ raised' = w.raised
    /\ command' = "all"
    /\ UNCHANGED <<csv_header, gemini_csv, claude_csv, openai_csv, resp, rc_merge>>
    /\ UNCHANGED <<emitVars, parseVars, assembleVars>>
    /\ UNCHANGED ctlVars

Next == Step4SimpleMerge \/ AllMerge

Spec == Init /\ [][Next]_vars

(***************************************************************************)
(* Semantic reconciliation: the backend's answer and the validation of it. *)
(* A JSON scalar is [ty, v]: a string, null, or a number with decimal text *)
(* v.  An element of the returned array is [isdict, d]: an object with     *)
(* members d, or something else.                                           *)
(***************************************************************************)
JStr(x) == [ty |-> "str", v |-> x]
JNull == [ty |-> "null", v |-> ""]
JNum(x) == [ty |-> "num", v |-> x]

\* str(x)
StrOf(j) == IF j.ty = "null" THEN "None" ELSE j.v

\* {"Question": str(obj.get("Question", "")), ...}
RowOfObject(obj) ==
    [k \in Fields |-> IF k \in DOMAIN obj.d THEN StrOf(obj.d[k]) ELSE StrOf(JStr(""))]

\* for obj in (data or []): skip what is no dict, append the five str fields.
RECURSIVE ParsedRows(_)
ParsedRows(data) ==
    IF data = <<>> THEN <<>>
    ELSE (IF Head(data).isdict THEN <<RowOfObject(Head(data))>> ELSE <<>>)
         \o ParsedRows(Tail(data))

\* read_rows of both semantic merge functions: the five fields of every
\* DictReader row; no path, no file or an exception give the empty list.
read_rows_projected(file) ==
    IF file.exists
    THEN [i \in 1..Len(file.rows) |-> Project(DictReaderRow(csv_header, file.rows[i]))]
    ELSE <<>>

\* Mutant of Match4: only the Question compared.
Match4QuestionOnly(cand, r) ==
    Get(cand, "Question", "") = Get(r, "Question", "")

\* cand.get(f, "") == r.get(f, "") for the four key fields
Match4(cand, r) ==
    /\ Get(cand, "Question", "") = Get(r, "Question", "")
    /\ Get(cand, "Constraint", "") = Get(r, "Constraint", "")
    /\ Get(cand, "Input Questions", "") = Get(r, "Input Questions", "")
    /\ Get(cand, "Relationship", "") = Get(r, "Relationship", "")

\* Mutant of PreferGeminiComment: no break, the last matching Gemini row wins.
PreferGeminiCommentLast(r, gem_rows) ==
    IF \E i \in 1..Len(gem_rows) : Match4(gem_rows[i], r)
    THEN LET i == CHOOSE i \in 1..Len(gem_rows) :
                      /\ Match4(gem_rows[i], r)
                      /\ \A j \in (i + 1)..Len(gem_rows) : ~Match4(gem_rows[j], r)
         IN  [r EXCEPT !["Comment"] = Get(gem_rows[i], "Comment", r["Comment"])]
    ELSE r

\* for g in gem_rows: if g matches r: r["Comment"] = g.get("Comment", ...); break
PreferGeminiComment(r, gem_rows) ==
    IF \E i \in 1..Len(gem_rows) : Match4(gem_rows[i], r)
    THEN LET i == CHOOSE i \in 1..Len(gem_rows) :
                      /\ Match4(gem_rows[i], r)
                      /\ \A j \in 1..(i - 1) : ~Match4(gem_rows[j], r)
         IN  [r EXCEPT !["Comment"] = Get(gem_rows[i], "Comment", r["Comment"])]
    ELSE r

\* gemini_semantic_merge_no_pdf, the loop over merged_rows: drop a row that
\* matches no candidate or whose key was seen; else take the Gemini comment,
\* remember the key and keep the row.
RECURSIVE SemanticFilter(_, _, _, _, _)
SemanticFilter(merged_rows, gem_rows, all_candidates, seen_keys, filtered) ==
    IF merged_rows = <<>> THEN filtered
    ELSE LET r == Head(merged_rows)
             k4 == KeyOf(r)
             exists == \E i \in 1..Len(all_candidates) : Match4(all_candidates[i], r)
         IN  IF ~exists \/ k4 \in seen_keys
             THEN SemanticFilter(Tail(merged_rows), gem_rows, all_candidates,
                                 seen_keys, filtered)
             ELSE SemanticFilter(Tail(merged_rows), gem_rows, all_candidates,
                                 seen_keys \cup {k4},
                                 Append(filtered, PreferGeminiComment(r, gem_rows)))

\* gemini_intelligent_merge, the loop over merged_rows: skip a seen key; find
\* the first matching candidate, taking the Gemini comment when gem_rows has
\* a match; drop the row when nothing matches.
RECURSIVE IntelligentFilter(_, _, _, _, _)
IntelligentFilter(merged_rows, gem_rows, all_candidates, seen_keys, filtered) ==
    IF merged_rows = <<>> THEN filtered
    ELSE LET r == Head(merged_rows)
             key4 == KeyOf(r)
             exists == \E i \in 1..Len(all_candidates) : Match4(all_candidates[i], r)
         IN  IF key4 \in seen_keys \/ ~exists
             THEN IntelligentFilter(Tail(merged_rows), gem_rows, all_candidates,
                                    seen_keys, filtered)
             ELSE IntelligentFilter(Tail(merged_rows), gem_rows, all_candidates,
                                    seen_keys \cup {key4},
                                    Append(filtered,
                                           IF gem_rows # <<>>
                                           THEN PreferGeminiComment(r, gem_rows)
                                           ELSE r))

\* Mutant of IntelligentFallbackLoop: the candidates concatenated without the
\* test on seen_simple.
RECURSIVE IntelligentFallbackLoopNoSeen(_, _, _)
IntelligentFallbackLoopNoSeen(rows, seen_simple, acc) ==
    IF rows = <<>> THEN acc
    ELSE IntelligentFallbackLoopNoSeen(Tail(rows), seen_simple, Append(acc, Head(rows)))

\* gemini_intelligent_merge, "if not filtered": the candidates in the order
\* Gemini, Claude, OpenAI, a seen key skipped, the row kept as read.
RECURSIVE IntelligentFallbackLoop(_, _, _)
IntelligentFallbackLoop(rows, seen_simple, acc) ==
    IF rows = <<>> THEN acc
    ELSE LET r == Head(rows)
             k == KeyOf(r)
         IN  IF k \in seen_simple
             THEN IntelligentFallbackLoop(Tail(rows), seen_simple, acc)
             ELSE IntelligentFallbackLoop(Tail(rows), seen_simple \cup {k}, Append(acc, r))

\* step4 --gemini-merge, "if rc_merge != 0": the priority merge over the rows
\* main read itself.
RECURSIVE Step4FallbackLoop(_, _, _)
Step4FallbackLoop(rows, seen, acc) ==
    IF rows = <<>> THEN acc
    ELSE LET r == Head(rows)
             key == KeyOf(r)
         IN  IF key \in seen
             THEN Step4FallbackLoop(Tail(rows), seen, acc)
             ELSE Step4FallbackLoop(Tail(rows), seen \cup {key}, Append(acc, Project(r)))

\* What the backend call can produce: the SDK import fails ("nosdk"), the
\* call raises ("raise"), the text holds no parseable array ("garbage",
\* data = []), or the text holds an array ("array").
ObjSame == [isdict |-> TRUE,
            d |-> [k \in Fields |-> JStr(RowA2[CHOOSE i \in 1..5 : header[i] = k])]]
ObjNullComment ==
    [isdict |-> TRUE,
     d |-> [k \in Fields |-> IF k = "Comment" THEN JNull
                             ELSE JStr(RowA1[CHOOSE i \in 1..5 : header[i] = k])]]
ObjSwap == [isdict |-> TRUE,
            d |-> [k \in Fields |-> JStr(RowSwap[CHOOSE i \in 1..5 : header[i] = k])]]
ObjInvented == [isdict |-> TRUE,
                d |-> [k \in {"Question", "Constraint"} |->
                          IF k = "Question" THEN JStr("Q1") ELSE JNum("7")]]
ObjNoDict == [isdict |-> FALSE, d |-> <<>>]
RespObjects == {ObjSame, ObjNullComment, ObjSwap, ObjInvented, ObjNoDict}

Responses ==
    {[kind |-> k, data |-> <<>>] : k \in {"nosdk", "raise", "garbage"}}
    \cup {[kind |-> "array", data |-> d] : d \in SeqsUpTo(RespObjects, MaxResp)}

\* gemini_semantic_merge_no_pdf as a whole: its return code, the rows it
\* hands to the writer, the file it leaves, and the backend outcome it met
\* ("none": no call was made).
\* Mutant of gemini_semantic_merge_no_pdf: the test for no candidate rows
\* left out, so that the backend is called with empty lists.
gemini_semantic_merge_no_pdfNoGuard(r, out) ==
    LET gem_rows == read_rows_projected(gemini_csv)
        cla_rows == read_rows_projected(claude_csv)
        oai_rows == read_rows_projected(openai_csv)
        merged_rows == ParsedRows(r.data)
        filtered == SemanticFilter(merged_rows, gem_rows,
                                   gem_rows \o cla_rows \o oai_rows, {}, <<>>)
        w == write_rows(filtered)
    IN  IF r.kind = "nosdk"
        THEN [rc |-> 2, rows |-> <<>>, file |-> out, raised |-> FALSE, resp |-> r]
        ELSE IF r.kind = "raise"
        THEN [rc |-> 2, rows |-> <<>>, file |-> out, raised |-> FALSE, resp |-> r]
        ELSE [rc |-> 0, rows |-> filtered, file |-> w.file, raised |-> w.raised,
              resp |-> r]

gemini_semantic_merge_no_pdf(r, out) ==
    LET gem_rows == read_rows_projected(gemini_csv)
        cla_rows == read_rows_projected(claude_csv)
        oai_rows == read_rows_projected(openai_csv)
        merged_rows == ParsedRows(r.data)
        filtered == SemanticFilter(merged_rows, gem_rows,
                                   gem_rows \o cla_rows \o oai_rows, {}, <<>>)
        w == write_rows(filtered)
    IN  IF r.kind = "nosdk"
        THEN [rc |-> 2, rows |-> <<>>, file |-> out, raised |-> FALSE, resp |-> r]
        ELSE IF gem_rows = <<>> /\ cla_rows = <<>> /\ oai_rows = <<>>
        THEN [rc |-> 1, rows |-> <<>>, file |-> out, raised |-> FALSE, resp |-> NoResp]
        ELSE IF r.kind = "raise"
        THEN [rc |-> 2, rows |-> <<>>, file |-> out, raised |-> FALSE, resp |-> r]
        ELSE [rc |-> 0, rows |-> filtered, file |-> w.file, raised |-> w.raised,
              resp |-> r]

\* gemini_intelligent_merge as a whole (the PDF upload only adds context to
\* the request).
gemini_intelligent_merge(r, out) ==
    LET gem_rows == read_rows_projected(gemini_csv)
        cla_rows == read_rows_projected(claude_csv)
        oai_rows == read_rows_projected(openai_csv)
        merged_rows == ParsedRows(r.data)
        kept == IntelligentFilter(merged_rows, gem_rows,
                                  gem_rows \o cla_rows \o oai_rows, {}, <<>>)
        filtered == IF kept = <<>>
                    THEN IntelligentFallbackLoop(gem_rows \o cla_rows \o oai_rows,
                                                 {}, <<>>)
                    ELSE kept
        w == write_rows(filtered)
    IN  IF r.kind = "nosdk"
        THEN [rc |-> 2, rows |-> <<>>, file |-> out, raised |-> FALSE, resp |-> r]
        ELSE IF gem_rows = <<>> /\ cla_rows = <<>> /\ oai_rows = <<>>
        THEN [rc |-> 1, rows |-> <<>>, file |-> out, raised |-> FALSE, resp |-> NoResp]
        ELSE IF r.kind = "raise"
        THEN [rc |-> 2, rows |-> <<>>, file |-> out, raised |-> FALSE, resp |-> r]
        ELSE [rc |-> 0, rows |-> filtered, file |-> w.file, raised |-> w.raised,
              resp |-> r]

SemRawRows == {RowA1, RowA2, RowSwap, RowShort}

InitSem ==
    /\ csv_header = HdrFull
    /\ TablesInitSem(SemRawRows, SemMaxRows)
    /\ InitMergeState
    /\ InitIdleEmit
    /\ InitIdleParse
    /\ InitIdleAssemble
    /\ InitIdleCtl

\* step4 with --gemini-merge: the semantic merge, and when it returns
\* non-zero the priority merge, written only when it has rows.
Step4GeminiMerge ==
    /\ command = "none"
    /\ \E r \in Responses :
         LET g_rows == read_rows(gemini_csv)
             c_rows == read_rows(claude_csv)
             o_rows == read_rows(openai_csv)
             res == gemini_semantic_merge_no_pdf(r, out_merged)
             m == Step4FallbackLoop(g_rows \o c_rows \o o_rows, {}, <<>>)
             w == write_rows(m)
         IN  /\ rc_merge' = res.rc
             /\ resp' = res.resp
             /\ IF res.rc # 0
                THEN /\ merged' = m
                     /\ out_merged' = IF m # <<>> THEN w.file ELSE res.file
                     /\ raised' = IF m # <<>> THEN w.raised ELSE FALSE
                ELSE /\ merged' = res.rows
                     /\ out_merged' = res.file
                     /\ raised' = res.raised
    /\ command' = "step4-gemini-merge"
    /\ UNCHANGED <<csv_header, gemini_csv, claude_csv, openai_csv>>
    /\ UNCHANGED <<emitVars, parseVars, assembleVars>>
    /\ UNCHANGED ctlVars

\* a call of gemini_intelligent_merge.
IntelligentMerge ==
    /\ command = "none"
    /\ \E r \in Responses :
         LET res == gemini_intelligent_merge(r, out_merged)
         IN  /\ rc_merge' = res.rc
             /\ resp' = res.resp
             /\ merged' = res.rows
             /\ out_merged' = res.file
             /\ raised' = res.raised
    /\ command' = "intelligent"
    /\ UNCHANGED <<csv_header, gemini_csv, claude_csv, openai_csv>>
    /\ UNCHANGED <<emitVars, parseVars, assembleVars>>
    /\ UNCHANGED ctlVars

NextSem == Step4GeminiMerge \/ IntelligentMerge

SpecSem == InitSem /\ [][NextSem]_vars


(***************************************************************************)
(* The grouping assembler, emit_groups_and_recodes.                        *)
(* An entry is [isdict, code, text, recode, subs]; a sub-entry is          *)
(* [isdict, code, recode].  code and text are JSON scalars, with ty        *)
(* "absent" for a key the dict does not have; recode and subs are          *)
(* [ty, v] with ty "list" (v the elements), "absent", or "other" for a     *)
(* value that is no list.                                                  *)
(***************************************************************************)
JAbsent == [ty |-> "absent", v |-> ""]
NoList == [ty |-> "absent", v |-> <<>>]
JList(s) == [ty |-> "list", v |-> s]
NotAList == [ty |-> "other", v |-> <<>>]

\* bool(x) of item.get("question_code")
Truthy(j) ==
    \/ j.ty = "str" /\ j.v # ""
    \/ j.ty = "num" /\ j.v # "0"

\* The strings of the model in Python's string order.
CodePoints == <<"7", "A", "B", "C">>
Rank(x) == CHOOSE i \in 1..Len(CodePoints) : CodePoints[i] = x

RECURSIVE InsertSorted(_, _)
InsertSorted(x, s) ==
    IF s = <<>> THEN <<x>>
    ELSE IF Rank(x) <= Rank(Head(s)) THEN <<x>> \o s
    ELSE <<Head(s)>> \o InsertSorted(x, Tail(s))

\* sorted(sources)
RECURSIVE sorted(_)
sorted(s) == IF s = <<>> THEN <<>> ELSE InsertSorted(Head(s), sorted(Tail(s)))

\* Mutant of RecodeId: the sources hashed in the order given.
RecodeIdUnsorted(target_code, sources) == [t |-> target_code, s |-> sources]

\* hid = sha1(json.dumps({"t": target_code, "s": sorted(sources)},
\* sort_keys=True))[:10].  The digest is a function of the dumped text, which
\* holds exactly the target and the sorted sources; the model keeps that
\* content as the id.
RecodeId(target_code, sources) == [t |-> target_code, s |-> sorted(sources)]

\* add_recode_entry: the entry appended to recodings.
RecodeEntry(target_code, question_text, sources) ==
    [id |-> RecodeId(target_code, sources),
     name |-> target_code,
     codes |-> sources,
     recode |-> <<target_code, ": ", question_text>>]

\* [str(s) for s in x.get("recode_from", [])]
StrList(l) == [i \in 1..Len(l) |-> StrOf(l[i])]

\* str(item.get("question_text", fallback))
TextOr(item, fallback) == IF item.text.ty = "absent" THEN fallback ELSE StrOf(item.text)

\* the group-level recode of an entry: none, or one entry.
ItemRecode(item) ==
    IF item.recode.ty = "list" /\ Truthy(item.code)
    THEN <<RecodeEntry(StrOf(item.code),
                       TextOr(item, IF item.code.ty = "absent" THEN ""
                                    ELSE StrOf(item.code)),
                       StrList(item.recode.v))>>
    ELSE <<>>

\* Mutant of SubColumns: a code is appended only at its last occurrence, as
\* when the columns are collected without repetition.
RECURSIVE SubColumnsDedup(_)
SubColumnsDedup(subs) ==
    IF subs = <<>> THEN <<>>
    ELSE LET sq == Head(subs)
             rest == SubColumnsDedup(Tail(subs))
         IN  IF sq.isdict /\ sq.code.ty = "str"
                /\ \A i \in 1..Len(rest) : rest[i] # sq.code.v
             THEN <<sq.code.v>> \o rest
             ELSE rest

\* the loop over subs: the columns ...
RECURSIVE SubColumns(_)
SubColumns(subs) ==
    IF subs = <<>> THEN <<>>
    ELSE LET sq == Head(subs)
         IN  (IF sq.isdict /\ sq.code.ty = "str" THEN <<sq.code.v>> ELSE <<>>)
             \o SubColumns(Tail(subs))

\* ... and the sub-question recodes.
RECURSIVE SubRecodes(_, _)
SubRecodes(item, subs) ==
    IF subs = <<>> THEN <<>>
    ELSE LET sq == Head(subs)
         IN  (IF sq.isdict /\ sq.recode.ty = "list" /\ sq.code.ty = "str"
              THEN <<RecodeEntry(sq.code.v, TextOr(item, sq.code.v),
                                 StrList(sq.recode.v))>>
              ELSE <<>>)
             \o SubRecodes(item, Tail(subs))

\* isinstance(subs, list) and len(subs) >= min_columns
EntersSubs(item, min) == item.subs.ty = "list" /\ Len(item.subs.v) >= min

\* Mutant of EmitsGroup: the second threshold test forgotten.
EmitsGroupAlways(columns, min) == TRUE

\* if len(columns) >= min_columns
EmitsGroup(columns, min) == Len(columns) >= min

\* f"group_{gid}"
GroupId(gid) == <<"group_", gid>>

\* str(item.get("question_text", item.get("question_code", f"group_{gid}")))
GroupName(item, gid) ==
    IF item.text.ty # "absent" THEN <<StrOf(item.text)>>
    ELSE IF item.code.ty # "absent" THEN <<StrOf(item.code)>>
    ELSE GroupId(gid)

\* Mutant of EmitLoop: the group-level recode collected only inside the
\* branch that builds a group.
RECURSIVE EmitLoopRecodeInGroup(_, _, _, _, _)
EmitLoopRecodeInGroup(items, min, groups, recodings, gid) ==
    IF items = <<>> THEN [called |-> TRUE, groups |-> groups, recodings |-> recodings]
    ELSE LET item == Head(items)
             columns == SubColumns(item.subs.v)
         IN  IF ~item.isdict \/ ~EntersSubs(item, min)
             THEN EmitLoopRecodeInGroup(Tail(items), min, groups, recodings, gid)
             ELSE IF EmitsGroup(columns, min)
             THEN EmitLoopRecodeInGroup(Tail(items), min,
                           Append(groups, [id |-> GroupId(gid),
                                           name |-> GroupName(item, gid),
                                           columns |-> columns]),
                           recodings \o ItemRecode(item) \o SubRecodes(item, item.subs.v),
                           gid + 1)
             ELSE EmitLoopRecodeInGroup(Tail(items), min, groups,
                           recodings \o SubRecodes(item, item.subs.v), gid)

\* the for loop of emit_groups_and_recodes over grouped_items.
RECURSIVE EmitLoop(_, _, _, _, _)
EmitLoop(items, min, groups, recodings, gid) ==
    IF items = <<>> THEN [called |-> TRUE, groups |-> groups, recodings |-> recodings]
    ELSE LET item == Head(items)
             columns == SubColumns(item.subs.v)
         IN  IF ~item.isdict
             THEN EmitLoop(Tail(items), min, groups, recodings, gid)
             ELSE IF ~EntersSubs(item, min)
             THEN EmitLoop(Tail(items), min, groups, recodings \o ItemRecode(item), gid)
             ELSE IF EmitsGroup(columns, min)
             THEN EmitLoop(Tail(items), min,
                           Append(groups, [id |-> GroupId(gid),
                                           name |-> GroupName(item, gid),
                                           columns |-> columns]),
                           recodings \o ItemRecode(item) \o SubRecodes(item, item.subs.v),
                           gid + 1)
             ELSE EmitLoop(Tail(items), min, groups,
                           recodings \o ItemRecode(item) \o SubRecodes(item, item.subs.v),
                           gid)

\* Mutant of emit_groups_and_recodes: the counter is kept between calls.
emit_groups_and_recodesKeepsGid(items, min) ==
    EmitLoop(items, min, <<>>, <<>>, Len(emitted.groups))

\* groups, recodings and gid are locals initialised on entry (lines 15-17).
emit_groups_and_recodes(items, min) == EmitLoop(items, min, <<>>, <<>>, 0)

\* Inputs: sub-entries and entries.
SubR1 == [isdict |-> TRUE, code |-> JStr("A1r1"), recode |-> NoList]
SubR2 == [isdict |-> TRUE, code |-> JStr("A1r2"), recode |-> NoList]
SubRec == [isdict |-> TRUE, code |-> JStr("A1r3"), recode |-> JList(<<JStr("B"), JStr("A")>>)]
SubNum == [isdict |-> TRUE, code |-> JNum("7"), recode |-> JList(<<JStr("A")>>)]
SubNoDict == [isdict |-> FALSE, code |-> JAbsent, recode |-> NoList]

Entry(code, text, recode, subs) ==
    [isdict |-> TRUE, code |-> code, text |-> text, recode |-> recode, subs |-> subs]

ItemPickAll == Entry(JStr("A1"), JStr("Pick all"), NoList, JList(<<SubR1, SubR2>>))
ItemOneSub == Entry(JStr("A2"), JAbsent, NoList, JList(<<SubR1>>))
ItemOneResolvable == Entry(JStr("A3"), JStr("Grid"), NoList, JList(<<SubR1, SubNum>>))
ItemMixed == Entry(JStr("A4"), JNull, NoList, JList(<<SubR1, SubNoDict, SubR2>>))
ItemSubRecode == Entry(JAbsent, JAbsent, NoList, JList(<<SubRec, SubR1>>))
ItemSubRecodeAlone == Entry(JStr("A5"), JStr("Derived"), NoList, JList(<<SubRec>>))
ItemRecodeAB == Entry(JStr("T"), JStr("Total"), JList(<<JStr("A"), JStr("B")>>), NoList)
ItemRecodeBA == Entry(JStr("T"), JAbsent, JList(<<JStr("B"), JStr("A")>>), NoList)
ItemRecodeNum == Entry(JNum("7"), JAbsent, JList(<<JNum("7"), JStr("A"), JStr("A")>>), NotAList)
ItemRecodeOneSub == Entry(JStr("T"), JStr("Total"), JList(<<JStr("C")>>), JList(<<SubR1>>))
ItemRecodeEmpty == Entry(JStr("A6"), JAbsent, JList(<<>>), NoList)
ItemRecodeNoCode == Entry(JStr(""), JStr("x"), JList(<<JStr("A")>>), NoList)
ItemRecodeGrid == Entry(JStr("G"), JStr("Grid"), JList(<<JStr("A")>>),
                        JList(<<SubR1, SubNum>>))
ItemUnordered == Entry(JStr("A7"), JStr("Rank"), NoList, JList(<<SubR2, SubR1, SubR2>>))
ItemSubRecodeJunk == Entry(JStr("A8"), JStr("Junk"), NoList, JList(<<SubRec, SubNoDict>>))
ItemNoDict == [isdict |-> FALSE, code |-> JAbsent, text |-> JAbsent,
               recode |-> NoList, subs |-> NoList]

Items == {ItemPickAll, ItemOneSub, ItemOneResolvable, ItemMixed, ItemSubRecode,
          ItemSubRecodeAlone, ItemRecodeAB, ItemRecodeBA, ItemRecodeNum,
          ItemRecodeOneSub, ItemRecodeEmpty, ItemRecodeNoCode, ItemRecodeGrid,
          ItemUnordered, ItemSubRecodeJunk, ItemNoDict}

MinColumnsValues == {1, 2, 3}

InitIdleMerge ==
    /\ csv_header = HdrFull
    /\ gemini_csv = NoFile
    /\ claude_csv = NoFile
    /\ openai_csv = NoFile
    /\ InitMergeState

InitEmit ==
    /\ grouped_items \in SeqsUpTo(Items, MaxItems)
    /\ min_columns \in MinColumnsValues
    /\ emitted = NotEmitted
    /\ invocations = 0
    /\ InitIdleMerge
    /\ InitIdleParse
    /\ InitIdleAssemble
    /\ InitIdleCtl

\* out = emit_groups_and_recodes(data, min_columns=args.min_columns)
EmitGroups ==
    /\ ~emitted.called
    /\ emitted' = emit_groups_and_recodes(grouped_items, min_columns)
    /\ invocations' = 1
    /\ UNCHANGED <<grouped_items, min_columns>>
    /\ UNCHANGED <<mergeVars, parseVars, assembleVars>>
    /\ UNCHANGED ctlVars

\* A later call of emit_groups_and_recodes, on another input list; the input
\* lists of later calls are drawn from RerunInputs.
RerunInputs == SeqsUpTo({ItemOneSub, ItemPickAll, ItemUnordered}, 2)

EmitGroupsAgain ==
    /\ emitted.called
    /\ invocations < MaxInvocations
    /\ \E data \in RerunInputs :
          /\ grouped_items' = data
          /\ emitted' = emit_groups_and_recodes(data, min_columns)
    /\ invocations' = invocations + 1
    /\ UNCHANGED min_columns
    /\ UNCHANGED <<mergeVars, parseVars, assembleVars>>
    /\ UNCHANGED ctlVars

NextEmit == EmitGroups \/ EmitGroupsAgain

SpecEmit == InitEmit /\ [][NextEmit]_vars


(***************************************************************************)
(* The backend response parsers.  A text is a sequence of one-character    *)
(* strings.  json.loads is modelled as a recogniser of JSON over the       *)
(* characters of the model (numbers made of the digit 1, strings without   *)
(* escapes, arrays, objects, blanks between tokens); the value it returns  *)
(* is kept as its kind and the text it was read from.                      *)
(***************************************************************************)
Quote == "\""

\* s.find(c) and s.rfind(c), 1-based; 0 stands for -1.
Find(s, c) ==
    IF \E i \in 1..Len(s) : s[i] = c
    THEN CHOOSE i \in 1..Len(s) : s[i] = c /\ \A j \in 1..(i - 1) : s[j] # c
    ELSE 0
RFind(s, c) ==
    IF \E i \in 1..Len(s) : s[i] = c
    THEN CHOOSE i \in 1..Len(s) : s[i] = c /\ \A j \in (i + 1)..Len(s) : s[j] # c
    ELSE 0

\* s.strip() == "" for the blanks of the model
IsBlank(s) == \A i \in 1..Len(s) : s[i] = " "

RECURSIVE SkipWs(_, _)
SkipWs(s, i) == IF i <= Len(s) /\ s[i] = " " THEN SkipWs(s, i + 1) ELSE i

RECURSIVE NumEnd(_, _)
NumEnd(s, i) == IF i <= Len(s) /\ s[i] = "1" THEN NumEnd(s, i + 1) ELSE i

\* the index after the string literal that opens at s[i], 0 if unterminated
StrEnd(s, i) ==
    IF \E j \in (i + 1)..Len(s) : s[j] = Quote
    THEN 1 + CHOOSE j \in (i + 1)..Len(s) :
                 s[j] = Quote /\ \A k \in (i + 1)..(j - 1) : s[k] # Quote
    ELSE 0

\* the index after the JSON value that starts at s[i], 0 if there is none
RECURSIVE ValueEnd(_, _)
RECURSIVE ArrayTail(_, _)
RECURSIVE ObjectTail(_, _)
ValueEnd(s, i) ==
    IF i > Len(s) THEN 0
    ELSE IF s[i] = "1" THEN NumEnd(s, i)
    ELSE IF s[i] = Quote THEN StrEnd(s, i)
    ELSE IF s[i] = "["
    THEN LET j == SkipWs(s, i + 1)
         IN  IF j <= Len(s) /\ s[j] = "]" THEN j + 1 ELSE ArrayTail(s, j)
    ELSE IF s[i] = "{"
    THEN LET j == SkipWs(s, i + 1)
         IN  IF j <= Len(s) /\ s[j] = "}" THEN j + 1 ELSE ObjectTail(s, j)
    ELSE 0

\* after '[' or ',': a value, then ',' or ']'
ArrayTail(s, i) ==
    LET e == ValueEnd(s, i)
        j == SkipWs(s, e)
    IN  IF e = 0 \/ j > Len(s) THEN 0
        ELSE IF s[j] = "," THEN ArrayTail(s, SkipWs(s, j + 1))
        ELSE IF s[j] = "]" THEN j + 1
        ELSE 0

\* after '{' or ',': a string, ':', a value, then ',' or '}'
ObjectTail(s, i) ==
    IF i > Len(s) \/ s[i] # Quote THEN 0
    ELSE LET k == StrEnd(s, i)
             c == SkipWs(s, k)
         IN  IF k = 0 \/ c > Len(s) \/ s[c] # ":" THEN 0
             ELSE LET e == ValueEnd(s, SkipWs(s, c + 1))
                      j == SkipWs(s, e)
                  IN  IF e = 0 \/ j > Len(s) THEN 0
                      ELSE IF s[j] = "," THEN ObjectTail(s, SkipWs(s, j + 1))
                      ELSE IF s[j] = "}" THEN j + 1
                      ELSE 0

KindOf(c) ==
    IF c = "[" THEN "list"
    ELSE IF c = "{" THEN "dict"
    ELSE IF c = Quote THEN "str"
    ELSE "int"

\* json.loads(s): [ok, ty, src]; not ok stands for the exception raised.
JsonFail == [ok |-> FALSE, ty |-> "none", src |-> NoText]
loads(s) ==
    LET i == SkipWs(s, 1)
        e == ValueEnd(s, i)
    IN  IF e # 0 /\ SkipWs(s, e) = Len(s) + 1
        THEN [ok |-> TRUE, ty |-> KindOf(s[i]), src |-> SubSeq(s, i, e - 1)]
        ELSE JsonFail

NoCand == [found |-> FALSE, str |-> NoText]

\* Mutant of extract_json_array_str: the span closed at the last ']' of the
\* text, as the other parsers do.
extract_json_array_strLast(s) ==
    IF Find(s, "[") # 0 /\ RFind(s, "]") > Find(s, "[")
    THEN [found |-> TRUE, str |-> SubSeq(s, Find(s, "["), RFind(s, "]"))]
    ELSE NoCand

\* the scan of extract_json_array_str from position i with the given depth
RECURSIVE DepthScan(_, _, _, _)
DepthScan(s, start, i, depth) ==
    IF i > Len(s) THEN NoCand
    ELSE IF s[i] = "[" THEN DepthScan(s, start, i + 1, depth + 1)
    ELSE IF s[i] = "]"
    THEN IF depth - 1 = 0
         THEN [found |-> TRUE, str |-> SubSeq(s, start, i)]
         ELSE DepthScan(s, start, i + 1, depth - 1)
    ELSE DepthScan(s, start, i + 1, depth)

\* extract_json_array_str(s): not found stands for the ValueError raised.
extract_json_array_str(s) ==
    IF Find(s, "[") = 0 THEN NoCand
    ELSE DepthScan(s, Find(s, "["), Find(s, "["), 0)

\* getattr(resp, "text", "") or "[]"
TextOrEmptyArray(t) == IF t = NoText THEN <<"[", "]">> ELSE t

Outcome(ok, ty, src, t, cand) ==
    [ok |-> ok, ty |-> ty, src |-> src, text |-> t, cand |-> cand]

\* step2 grouping, main: the empty-response exit, the direct parse, then the
\* extraction.  Not ok stands for SystemExit(2).
step2_parse(t) ==
    LET direct == loads(t)
        cand == extract_json_array_str(t)
        second == loads(cand.str)
    IN  IF IsBlank(t) THEN Outcome(FALSE, "none", NoText, t, NoCand)
        ELSE IF direct.ok /\ direct.ty = "list"
        THEN Outcome(TRUE, "list", direct.src, t, NoCand)
        ELSE IF cand.found /\ second.ok /\ second.ty = "list"
        THEN Outcome(TRUE, "list", second.src, t, cand)
        ELSE Outcome(FALSE, "none", NoText, t, cand)

\* extract_json_array(text) of step3 grouping: not ok stands for the
\* exception raised.
extract_json_array(t) ==
    LET s == Find(t, "[")
        e == RFind(t, "]")
        snippet == loads(SubSeq(t, s, e))
        asis == loads(t)
    IN  IF s # 0 /\ e # 0 /\ e > s
        THEN Outcome(snippet.ok, snippet.ty, snippet.src, t, NoCand)
        ELSE IF asis.ok /\ asis.ty = "list"
        THEN Outcome(TRUE, "list", asis.src, t, NoCand)
        ELSE Outcome(FALSE, "none", NoText, t, NoCand)

\* parse_json_strict(text): not ok stands for the exception raised.
parse_json_strict(t) ==
    LET direct == loads(t)
        start == Find(t, "[")
        end == RFind(t, "]")
        candidate == loads(SubSeq(t, start, end))
    IN  IF direct.ok THEN Outcome(TRUE, direct.ty, direct.src, t, NoCand)
        ELSE IF start # 0 /\ end # 0 /\ end > start
        THEN Outcome(candidate.ok, candidate.ty, candidate.src, t, NoCand)
        ELSE Outcome(FALSE, "none", NoText, t, NoCand)

\* Inputs: every text of up to MaxText characters of Alphabet, and the
\* longer examples.
Alphabet == {"[", "]", "1", ",", Quote, "x"}
\* "~" stands for a code fence, " " for a blank or a line break.
Fenced == <<"x", " ", "~", "[", "{", Quote, "a", Quote, ":", "1", "}", "]", " ", "~">>
Unbalanced == <<"[", "{", Quote, "a", Quote, ":", "1", "}">>
Wrapped == <<"{", Quote, "a", Quote, ":", "[", "1", "]", "}">>
TwoSpans == <<"[", "1", "]", " ", "x", " ", "[", "1", "]">>
Nested == <<"x", "[", "[", "1", "]", ",", " ", "[", "]", "]", "x", "]">>
ExampleTexts == {Fenced, Unbalanced, Wrapped, TwoSpans, Nested}
Texts == SeqsUpTo(Alphabet, MaxText) \cup ExampleTexts

InitParse ==
    /\ response_text \in Texts
    /\ parser = "none"
    /\ parsed = NotParsed
    /\ csv_header = HdrFull
    /\ gemini_csv = NoFile
    /\ claude_csv = NoFile
    /\ openai_csv = NoFile
    /\ InitMergeState
    /\ InitIdleEmit
    /\ InitIdleAssemble
    /\ InitIdleCtl

\* step2 grouping: text = call_model(...), then the parse.
Step2Parse ==
    /\ parser = "none"
    /\ parser' = "step2"
    /\ parsed' = step2_parse(TextOrEmptyArray(response_text))
    /\ UNCHANGED <<response_text, mergeVars, emitVars, assembleVars>>
    /\ UNCHANGED ctlVars

\* step3 grouping: text = getattr(response, "text", "") or "[]", then
\* groups = extract_json_array(text).
Step3Parse ==
    /\ parser = "none"
    /\ parser' = "step3"
    /\ parsed' = extract_json_array(TextOrEmptyArray(response_text))
    /\ UNCHANGED <<response_text, mergeVars, emitVars, assembleVars>>
    /\ UNCHANGED ctlVars

\* questionnaire extraction: text = getattr(response, "text", None) or "",
\* then data = parse_json_strict(text).
StrictParse ==
    /\ parser = "none"
    /\ parser' = "strict"
    /\ parsed' = parse_json_strict(response_text)
    /\ UNCHANGED <<response_text, mergeVars, emitVars, assembleVars>>
    /\ UNCHANGED ctlVars

NextParse == Step2Parse \/ Step3Parse \/ StrictParse

SpecParse == InitParse /\ [][NextParse]_vars


(***************************************************************************)
(* Grouped-output assembly: assemble_output of step3b and the assembly     *)
(* loop of step3 grouping.  A group descriptor is [isdict, cols, code,     *)
(* text, gtype] with cols a [ty, v] as for recode_from and the other       *)
(* members JSON scalars (an element of cols may also be a JSON array, ty   *)
(* "array"); a metadata entry is [code, pa], pa naming the value of its    *)
(* possible_answers ("labels": a dict of labels, "range": a {min, max}     *)
(* dict, "absent": no such key).  An assembled item keeps its kind,        *)
(* question_code, question_type, possible_answers and, for a composite,    *)
(* its sub_questions [question_code, possible_answers]; question_text is   *)
(* copied through and left out.                                            *)
(***************************************************************************)
\* x or default
ScalarOr(j, default) == IF Truthy(j) THEN j ELSE default

\* the dict after d[k] = val for every k of keys
PutAll(d, keys, val) ==
    [k \in DOMAIN d \cup keys |-> IF k \in keys THEN val ELSE d[k]]

EmptyDict == [k \in {} |-> 0]

\* the dict after d.setdefault(k, val) for every k of keys
PutAllKeep(d, keys, val) ==
    [k \in DOMAIN d \cup keys |-> IF k \in DOMAIN d THEN d[k] ELSE val]

\* Mutant of MemberToGroup3b: a code stays with the first group that claims it.
RECURSIVE MemberToGroup3bKeepFirst(_, _)
MemberToGroup3bKeepFirst(gs, member_to_group) ==
    IF gs = <<>> THEN member_to_group
    ELSE LET g == Head(gs)
             cols == g.cols
         IN  IF cols.ty # "list" \/ Len(cols.v) < 2
             THEN MemberToGroup3bKeepFirst(Tail(gs), member_to_group)
             ELSE MemberToGroup3bKeepFirst(Tail(gs),
                    PutAllKeep(member_to_group,
                           {JStr(StrOf(cols.v[i])) : i \in 1..Len(cols.v)},
                           [code |-> ScalarOr(g.code, JStr("GROUP")),
                            text |-> ScalarOr(g.text, JStr("GROUP")),
                            group_type |-> ScalarOr(g.gtype, JStr("multi-select"))]))

\* step3b: member_to_group[str(c)] = {"code": ..., "text": ..., "group_type": ...}
RECURSIVE MemberToGroup3b(_, _)
MemberToGroup3b(gs, member_to_group) ==
    IF gs = <<>> THEN member_to_group
    ELSE LET g == Head(gs)
             cols == g.cols
         IN  IF cols.ty # "list" \/ Len(cols.v) < 2
             THEN MemberToGroup3b(Tail(gs), member_to_group)
             ELSE MemberToGroup3b(Tail(gs),
                    PutAll(member_to_group,
                           {JStr(StrOf(cols.v[i])) : i \in 1..Len(cols.v)},
                           [code |-> ScalarOr(g.code, JStr("GROUP")),
                            text |-> ScalarOr(g.text, JStr("GROUP")),
                            group_type |-> ScalarOr(g.gtype, JStr("multi-select"))]))

\* step3: member_to_group[c] = {"code": gcode, "text": gtext}
RECURSIVE MemberToGroup3(_, _)
MemberToGroup3(gs, member_to_group) ==
    IF gs = <<>> THEN member_to_group
    ELSE LET g == Head(gs)
             cols == g.cols
             gcode == ScalarOr(g.code, JStr("MULTI_GROUP"))
         IN  IF ~g.isdict \/ cols.ty # "list" \/ Len(cols.v) < 2
             THEN MemberToGroup3(Tail(gs), member_to_group)
             ELSE MemberToGroup3(Tail(gs),
                    PutAll(member_to_group,
                           {cols.v[i] : i \in 1..Len(cols.v)},
                           [code |-> gcode,
                            text |-> ScalarOr(g.text, gcode),
                            group_type |-> JNull]))

\* "integer" if possible_answers is a {min, max} dict else "single-select"
StandaloneType(q) == IF q.pa = "range" THEN "integer" ELSE "single-select"

\* q.get("possible_answers"): None when the key is absent
PaGet(q) == IF q.pa = "absent" THEN "None" ELSE q.pa

\* q.get("possible_answers", {})
PaGetOrEmpty(q) == IF q.pa = "absent" THEN "{}" ELSE q.pa

Standalone(code, q) ==
    [kind |-> "standalone", question_code |-> code,
     question_type |-> StandaloneType(q), possible_answers |-> PaGet(q),
     sub_questions |-> <<>>]

\* a composite has no possible_answers key
Composite(gcode, qtype, subs) ==
    [kind |-> "composite", question_code |-> gcode,
     question_type |-> qtype, possible_answers |-> "absent",
     sub_questions |-> subs]

\* {"question_code": code, "possible_answers": q.get("possible_answers", {})}
SubQuestion(code, q) == [question_code |-> code, possible_answers |-> PaGetOrEmpty(q)]

\* gcode in emitted_groups: the composite of that code is in final_items
InEmitted(items, gcode) ==
    \E i \in 1..Len(items) : items[i].kind = "composite" /\ items[i].question_code = gcode

\* emitted_groups[gcode]["sub_questions"].append(...)
AppendSub(items, gcode, sub) ==
    [i \in 1..Len(items) |->
        IF items[i].kind = "composite" /\ items[i].question_code = gcode
        THEN [items[i] EXCEPT !.sub_questions = Append(@, sub)]
        ELSE items[i]]

\* step3: "grid" if any group of that code is a grid
GridIn3(gs, gcode) ==
    \E i \in 1..Len(gs) :
        gs[i].isdict /\ gs[i].code = gcode /\ gs[i].gtype = JStr("grid")

\* the loop over the metadata list; variant "step3b" looks the code up as
\* str(question_code), "step3" as it is.
RECURSIVE AssembleLoop(_, _, _, _, _)
AssembleLoop(meta, member_to_group, items, gs, variant) ==
    IF meta = <<>> THEN items
    ELSE LET q == Head(meta)
             code == IF variant = "step3b" THEN JStr(StrOf(q.code)) ELSE q.code
         IN  IF code \in DOMAIN member_to_group
             THEN LET grp == member_to_group[code]
                      gcode == grp.code
                      qtype == IF variant = "step3b"
                               THEN (IF grp.group_type = JStr("grid")
                                     THEN "grid" ELSE "multi-select")
                               ELSE (IF GridIn3(gs, gcode)
                                     THEN "grid" ELSE "multi-select")
                      opened == IF InEmitted(items, gcode) THEN items
                                ELSE Append(items, Composite(gcode, qtype, <<>>))
                  IN  AssembleLoop(Tail(meta), member_to_group,
                                   AppendSub(opened, gcode, SubQuestion(code, q)), gs, variant)
             ELSE AssembleLoop(Tail(meta), member_to_group,
                               Append(items, Standalone(code, q)), gs, variant)

\* assemble_output(groups, meta): g.get on an element that is no dict raises.
assemble_output(gs, meta) ==
    IF \E i \in 1..Len(gs) : ~gs[i].isdict
    THEN [raised |-> TRUE, items |-> <<>>]
    ELSE [raised |-> FALSE,
          items |-> AssembleLoop(meta, MemberToGroup3b(gs, EmptyDict), <<>>, gs, "step3b")]

\* step3: member_to_group[c] = ... with c a list raises TypeError (unhashable)
Unhashable3(gs) ==
    \E i \in 1..Len(gs) :
        /\ gs[i].isdict
        /\ gs[i].cols.ty = "list"
        /\ Len(gs[i].cols.v) >= 2
        /\ \E c \in 1..Len(gs[i].cols.v) : gs[i].cols.v[c].ty = "array"

\* the assembly of step3 grouping
step3_assemble(gs, meta) ==
    IF Unhashable3(gs)
    THEN [raised |-> TRUE, items |-> <<>>]
    ELSE [raised |-> FALSE,
          items |-> AssembleLoop(meta, MemberToGroup3(gs, EmptyDict), <<>>, gs, "step3")]

\* Inputs.
JArr(x) == [ty |-> "array", v |-> x]

GroupDesc(cols, code, text, gtype) ==
    [isdict |-> TRUE, cols |-> cols, code |-> code, text |-> text, gtype |-> gtype]

GroupAB == GroupDesc(JList(<<JStr("A"), JStr("B")>>), JStr("G1"), JStr("Pick all"), JStr("grid"))
GroupBC == GroupDesc(JList(<<JStr("B"), JStr("C")>>), JStr("G1"), JAbsent, JAbsent)
GroupAZ == GroupDesc(JList(<<JStr("A"), JStr("Z")>>), JStr("G2"), JStr("Invented"), JAbsent)
GroupNumB == GroupDesc(JList(<<JNum("7"), JStr("B")>>), JAbsent, JNull, JStr("multi-select"))
GroupOne == GroupDesc(JList(<<JStr("A")>>), JStr("G3"), JStr("One"), JAbsent)
GroupNoCols == GroupDesc(NotAList, JStr("G4"), JAbsent, JAbsent)
GroupNoDict == [isdict |-> FALSE, cols |-> NoList, code |-> JAbsent, text |-> JAbsent,
                gtype |-> JAbsent]
GroupNested == GroupDesc(JList(<<JArr("['A']"), JStr("B")>>), JStr("G5"), JAbsent, JAbsent)
GroupDescs == {GroupAB, GroupBC, GroupAZ, GroupNumB, GroupOne, GroupNoCols, GroupNoDict,
               GroupNested}

MetaEntries == {[code |-> JStr("A"), pa |-> "labels"],
                [code |-> JStr("B"), pa |-> "absent"],
                [code |-> JStr("C"), pa |-> "range"]}

InitAssemble ==
    /\ llm_groups \in SeqsUpTo(GroupDescs, MaxGroups)
    /\ full_meta \in SeqsUpTo(MetaEntries, MaxMeta)
    /\ assembler = "none"
    /\ final_items = <<>>
    /\ asm_raised = FALSE
    /\ csv_header = HdrFull
    /\ gemini_csv = NoFile
    /\ claude_csv = NoFile
    /\ openai_csv = NoFile
    /\ InitMergeState
    /\ InitIdleEmit
    /\ InitIdleParse
    /\ InitIdleCtl

\* step3b: final_items = assemble_output(groups, meta)
AssembleStep3b ==
    /\ assembler = "none"
    /\ assembler' = "step3b"
    /\ final_items' = assemble_output(llm_groups, full_meta).items
    /\ asm_raised' = assemble_output(llm_groups, full_meta).raised
    /\ UNCHANGED <<llm_groups, full_meta, mergeVars, emitVars, parseVars>>
    /\ UNCHANGED ctlVars

\* step3 grouping: the assembly after the parse
AssembleStep3 ==
    /\ assembler = "none"
    /\ assembler' = "step3"
    /\ final_items' = step3_assemble(llm_groups, full_meta).items
    /\ asm_raised' = step3_assemble(llm_groups, full_meta).raised
    /\ UNCHANGED <<llm_groups, full_meta, mergeVars, emitVars, parseVars>>
    /\ UNCHANGED ctlVars

NextAssemble == AssembleStep3b \/ AssembleStep3

SpecAssemble == InitAssemble /\ [][NextAssemble]_vars


(***************************************************************************)
(* step4 as a process: main spawns the backend processes, waits for each   *)
(* of them, reads the three tables and merges.  The backend script         *)
(* (scripts/step4_detect_logics.py) is not among the sources: a backend is *)
(* modelled from section 5 of the specification as a process that may      *)
(* open its own output file, write rows to it and exit with any code, in   *)
(* any order and at any moment.  An output file may exist before the run,  *)
(* left in the output directory by an earlier run.  When out_claude is     *)
(* None there is no Claude file.                                           *)
(***************************************************************************)
BackendRows == {RowA1, RowSwap}
ExitCodes == {0, 1}
StaleFile == [exists |-> TRUE, rows |-> <<RowA2>>]

FileOf(b) ==
    IF b = "gemini" THEN gemini_csv
    ELSE IF b = "claude" THEN claude_csv
    ELSE openai_csv

SetFile(b, f) ==
    /\ gemini_csv' = IF b = "gemini" THEN f ELSE gemini_csv
    /\ claude_csv' = IF b = "claude" THEN f ELSE claude_csv
    /\ openai_csv' = IF b = "openai" THEN f ELSE openai_csv

Step4Responses == {r \in Responses : Len(r.data) <= 1}

InitStep4 ==
    /\ csv_header = HdrFull
    /\ opus \in BOOLEAN
    /\ gemini_merge \in BOOLEAN
    /\ gemini_csv \in {NoFile, StaleFile}
    /\ claude_csv \in (IF opus THEN {NoFile, StaleFile} ELSE {NoFile})
    /\ openai_csv \in {NoFile, StaleFile}
    /\ InitMergeState
    /\ s4_pc = "spawn_gemini"
    /\ procs = <<>>
    /\ proc = [b \in Backends |-> NotSpawned]
    /\ waited = 0
    /\ rc_overall = 0
    /\ rows_g = <<>>
    /\ rows_c = <<>>
    /\ rows_o = <<>>
    /\ InitIdlePoll
    /\ InitIdleStep2
    /\ InitIdleStep3
    /\ InitIdleEmit
    /\ InitIdleParse
    /\ InitIdleAssemble

\* procs.append((name, run_async(...))): Gemini always, Claude when
\* out_claude and opus_project, OpenAI always (out_openai has a default).
Step4Spawn ==
    /\ s4_pc \in {"spawn_gemini", "spawn_claude", "spawn_openai"}
    /\ LET b == IF s4_pc = "spawn_gemini" THEN "gemini"
                ELSE IF s4_pc = "spawn_claude" THEN "claude" ELSE "openai"
           started == b # "claude" \/ opus
       IN  /\ procs' = IF started THEN Append(procs, b) ELSE procs
           /\ proc' = IF started
                      THEN [proc EXCEPT ![b] = [st |-> "running", code |-> 0,
                                                opened |-> FALSE]]
                      ELSE proc
    /\ s4_pc' = IF s4_pc = "spawn_gemini" THEN "spawn_claude"
                ELSE IF s4_pc = "spawn_claude" THEN "spawn_openai" ELSE "wait"
    /\ UNCHANGED <<opus, gemini_merge, waited, rc_overall, rows_g, rows_c, rows_o>>
    /\ UNCHANGED <<mergeVars, emitVars, parseVars, assembleVars>>
    /\ UNCHANGED <<pollVars, step2Vars, step3Vars>>

\* A backend opens its output file for writing: the file exists, empty but
\* for its header.
BackendOpens ==
    /\ \E b \in Backends :
          /\ proc[b].st = "running"
          /\ ~proc[b].opened
          /\ SetFile(b, HeaderOnly)
          /\ proc' = [proc EXCEPT ![b].opened = TRUE]
    /\ UNCHANGED <<s4_pc, opus, gemini_merge, procs, waited, rc_overall,
                   rows_g, rows_c, rows_o>>
    /\ UNCHANGED <<csv_header, command, resp, merged, out_merged, rc_merge, raised>>
    /\ UNCHANGED <<emitVars, parseVars, assembleVars>>
    /\ UNCHANGED <<pollVars, step2Vars, step3Vars>>

\* A backend writes one more row to its output file.
BackendWritesRow ==
    /\ \E b \in Backends :
          /\ proc[b].st = "running"
          /\ proc[b].opened
          /\ Len(FileOf(b).rows) < MaxBackendRows
          /\ \E row \in BackendRows :
                SetFile(b, [exists |-> TRUE, rows |-> Append(FileOf(b).rows, row)])
    /\ UNCHANGED step4Vars
    /\ UNCHANGED <<csv_header, command, resp, merged, out_merged, rc_merge, raised>>
    /\ UNCHANGED <<emitVars, parseVars, assembleVars>>
    /\ UNCHANGED <<pollVars, step2Vars, step3Vars>>

\* A backend process ends, with any exit code.
BackendExits ==
    /\ \E b \in Backends :
          /\ proc[b].st = "running"
          /\ \E code \in ExitCodes :
                proc' = [proc EXCEPT ![b].st = "exited", ![b].code = code]
    /\ UNCHANGED <<s4_pc, opus, gemini_merge, procs, waited, rc_overall,
                   rows_g, rows_c, rows_o>>
    /\ UNCHANGED <<mergeVars, emitVars, parseVars, assembleVars>>
    /\ UNCHANGED <<pollVars, step2Vars, step3Vars>>

\* Mutant of AllWaited: the loop left after the first process.
AllWaitedFirstOnly(n, ps) == n >= 1

\* for name, p in procs: the loop is over when every entry has been taken.
AllWaited(n, ps) == n = Len(ps)

\* code = p.wait(); if code != 0: rc_overall = code.  wait() returns only
\* when the process has ended.
Step4Wait ==
    /\ s4_pc = "wait"
    /\ IF AllWaited(waited, procs)
       THEN /\ s4_pc' = "read_gemini"
            /\ UNCHANGED <<waited, rc_overall>>
       ELSE /\ proc[procs[waited + 1]].st = "exited"
            /\ waited' = waited + 1
            /\ rc_overall' = IF proc[procs[waited + 1]].code # 0
                             THEN proc[procs[waited + 1]].code
                             ELSE rc_overall
            /\ s4_pc' = "wait"
    /\ UNCHANGED <<opus, gemini_merge, procs, proc, rows_g, rows_c, rows_o>>
    /\ UNCHANGED <<mergeVars, emitVars, parseVars, assembleVars>>
    /\ UNCHANGED <<pollVars, step2Vars, step3Vars>>

\* g_rows = read_rows(out_gemini); c_rows = read_rows(out_claude) if
\* out_claude else []; o_rows = read_rows(out_openai) if out_openai else []
Step4Read ==
    /\ s4_pc \in {"read_gemini", "read_claude", "read_openai"}
    /\ rows_g' = IF s4_pc = "read_gemini" THEN read_rows(gemini_csv) ELSE rows_g
    /\ rows_c' = IF s4_pc = "read_claude"
                 THEN (IF opus THEN read_rows(claude_csv) ELSE <<>>)
                 ELSE rows_c
    /\ rows_o' = IF s4_pc = "read_openai" THEN read_rows(openai_csv) ELSE rows_o
    /\ s4_pc' = IF s4_pc = "read_gemini" THEN "read_claude"
                ELSE IF s4_pc = "read_claude" THEN "read_openai" ELSE "merge"
    /\ UNCHANGED <<opus, gemini_merge, procs, proc, waited, rc_overall>>
    /\ UNCHANGED <<mergeVars, emitVars, parseVars, assembleVars>>
    /\ UNCHANGED <<pollVars, step2Vars, step3Vars>>

\* the merge of step4 over the rows read: the semantic merge with its
\* priority fallback when args.gemini_merge, else the priority merge; then
\* return rc_overall ("done"), unless write_rows raised ("raised").
Step4Merge ==
    /\ s4_pc = "merge"
    /\ IF gemini_merge
       THEN \E r \in Step4Responses :
              LET res == gemini_semantic_merge_no_pdf(r, out_merged)
                  m == Step4FallbackLoop(rows_g \o rows_c \o rows_o, {}, <<>>)
                  w == write_rows(m)
              IN  /\ rc_merge' = res.rc
                  /\ resp' = res.resp
                  /\ command' = "step4-gemini-merge"
                  /\ IF res.rc # 0
                     THEN /\ merged' = m
                          /\ out_merged' = IF m # <<>> THEN w.file ELSE res.file
                          /\ raised' = IF m # <<>> THEN w.raised ELSE FALSE
                     ELSE /\ merged' = res.rows
                          /\ out_merged' = res.file
                          /\ raised' = res.raised
       ELSE LET m == SimpleMergeLoop(rows_g \o rows_c \o rows_o, {}, <<>>)
                w == write_rows(m)
            IN  /\ merged' = m
                /\ out_merged' = IF m # <<>> THEN w.file ELSE out_merged
                /\ raised' = IF m # <<>> THEN w.raised ELSE FALSE
                /\ command' = "step4"
                /\ UNCHANGED <<resp, rc_merge>>
    /\ s4_pc' = IF raised' THEN "raised" ELSE "done"
    /\ UNCHANGED <<csv_header, gemini_csv, claude_csv, openai_csv>>
    /\ UNCHANGED <<opus, gemini_merge, procs, proc, waited, rc_overall,
                   rows_g, rows_c, rows_o>>
    /\ UNCHANGED <<emitVars, parseVars, assembleVars>>
    /\ UNCHANGED <<pollVars, step2Vars, step3Vars>>

NextStep4 ==
    \/ Step4Spawn
    \/ BackendOpens
    \/ BackendWritesRow
    \/ BackendExits
    \/ Step4Wait
    \/ Step4Read
    \/ Step4Merge

SpecStep4 == InitStep4 /\ [][NextStep4]_vars


(***************************************************************************)
(* The upload-polling loops: step2 grouping (Scripts/                      *)
(* step2_group_with_pdf_gemini.py), wait_until_active (step2_extract_pdf_  *)
(* questions_gemini.py) and gemini_intelligent_merge (pipeline.py).  The   *)
(* clock counts whole seconds since start = time.time(); a call of         *)
(* client.files.get and a time.sleep(1.0) each take one of the durations   *)
(* below.  The call returns a file state or raises.                        *)
(***************************************************************************)
PollLoops == {"step2_group", "wait_until_active", "intelligent"}
ReadyStates == {"ACTIVE", "SUCCEEDED", "READY"}
FailedStates == {"FAILED", "ERROR"}
GetRaises == "<raise>"
FileStates == ReadyStates \cup FailedStates \cup {"PROCESSING", "None", GetRaises}
GetSeconds == {0, 50}
SleepSeconds == {1, 30}

Step2GroupTimeout == 90
WaitUntilActiveTimeout == 120
IntelligentTimeout == 120

TimeoutOf(loop) ==
    IF loop = "step2_group" THEN Step2GroupTimeout
    ELSE IF loop = "wait_until_active" THEN WaitUntilActiveTimeout
    ELSE IntelligentTimeout

\* Mutant of TimedOut: the test on the clock left out.
TimedOutNever(t, loop) == FALSE

\* time.time() - start > timeout
TimedOut(t, loop) == t > TimeoutOf(loop)

\* How one pass of the loop body ends, the call having returned st at time
\* t: "polling" when the loop goes on to sleep.  In gemini_intelligent_merge
\* the loop is inside a try whose handler sets pdf_part = [].
PollOutcome(loop, st, t) ==
    IF st = GetRaises
    THEN (IF loop = "intelligent" THEN "no_file_part" ELSE "raised")
    ELSE IF st \in ReadyStates THEN "ready"
    ELSE IF loop = "wait_until_active" /\ st \in FailedStates THEN "failed"
    ELSE IF TimedOut(t, loop)
    THEN (IF loop = "intelligent" THEN "no_file_part" ELSE "timeout")
    ELSE "polling"

InitPoll ==
    /\ poll_loop \in PollLoops
    /\ poll_pc = "polling"
    /\ now = 0
    /\ polls = 0
    /\ file_state = "none"
    /\ InitIdleMerge
    /\ InitIdleEmit
    /\ InitIdleParse
    /\ InitIdleAssemble
    /\ InitIdleStep4
    /\ InitIdleStep2
    /\ InitIdleStep3

\* one pass: files.get, the tests on the state and on the clock, the sleep
PollIteration ==
    /\ poll_pc = "polling"
    /\ now < MaxClock
    /\ \E st \in FileStates, g \in GetSeconds, sl \in SleepSeconds :
          LET t == now + g
              outcome == PollOutcome(poll_loop, st, t)
          IN  /\ file_state' = st
              /\ polls' = polls + 1
              /\ poll_pc' = outcome
              /\ now' = IF outcome = "polling" THEN t + sl ELSE t
    /\ UNCHANGED poll_loop
    /\ UNCHANGED <<mergeVars, emitVars, parseVars, assembleVars>>
    /\ UNCHANGED <<step4Vars, step2Vars, step3Vars>>

NextPoll == PollIteration

SpecPoll == InitPoll /\ [][NextPoll]_vars

\* The script is a sequential program that keeps running: a pass of the
\* loop that can be taken is taken.
SpecPollFair == SpecPoll /\ WF_vars(PollIteration)


(***************************************************************************)
(* The retry protocol of step2 grouping (Scripts/                          *)
(* step2_group_with_pdf_gemini.py, main after the upload).  A call of the  *)
(* model raises or returns a text; the text is given by what the script    *)
(* makes of it: "empty" (no text: call_model returns "[]"), "blank" (only  *)
(* white space), "garbage" (no JSON array can be read from it) or "array"  *)
(* with the parsed list.  An element of the list is [isdict, subs], subs   *)
(* the number of sub_questions of a dict, -1 when it has no such list.     *)
(* s2_calls logs each call as [model, resp]; s2_data is [src, items], src  *)
(* telling where the list given to json.dump came from.                    *)
(***************************************************************************)
S2Composite == [isdict |-> TRUE, subs |-> 2]
S2OneSub == [isdict |-> TRUE, subs |-> 1]
S2Standalone == [isdict |-> TRUE, subs |-> -1]
S2NoDict == [isdict |-> FALSE, subs |-> -1]
S2Items == {S2Composite, S2OneSub, S2Standalone, S2NoDict}

S2Responses ==
    {[kind |-> k, data |-> <<>>] : k \in {"raise", "empty", "blank", "garbage"}}
    \cup {[kind |-> "array", data |-> d] : d \in SeqsUpTo(S2Items, MaxS2Items)}

\* what the heuristic fallback grouping may build from the metadata
HeuristicLists == {<<>>, <<S2Standalone>>, <<S2Composite, S2Standalone>>}

ModelNames == {"gemini-2.5-pro", "gemini-2.5-flash", "gemini-2.0-flash"}

\* has_groups(items): some dict with a sub_questions list of 2 or more
has_groups(items) ==
    \E i \in 1..Len(items) : items[i].isdict /\ items[i].subs >= 2

\* Mutant of AltModel: the retry made with the model of the first call.
AltModelSame(name) == name

\* alt_model = "gemini-2.5-pro" if model_name == "gemini-2.5-flash" else
\* "gemini-2.5-flash"
AltModel(name) ==
    IF name = "gemini-2.5-flash" THEN "gemini-2.5-pro" ELSE "gemini-2.5-flash"

\* the list the parse of a retry text gives: [] for every failure
RetryData(r) == IF r.kind = "array" THEN r.data ELSE <<>>

NoData == [src |-> "none", items |-> <<>>]

InitStep2 ==
    /\ s2_pc = "call1"
    /\ model_name \in ModelNames
    /\ args_fallback \in BOOLEAN
    /\ s2_calls = <<>>
    /\ s2_data = NoData
    /\ s2_exit = -1
    /\ s2_written = FALSE
    /\ InitIdleMerge
    /\ InitIdleEmit
    /\ InitIdleParse
    /\ InitIdleAssemble
    /\ InitIdleStep4
    /\ InitIdlePoll
    /\ InitIdleStep3

\* text = call_model(model_name, generate_cfg) and the parse of it: an
\* exception of the call is not caught (exit status 1); a blank text or one
\* without a JSON array ends the script with SystemExit(2).
Step2FirstCall ==
    /\ s2_pc = "call1"
    /\ \E r \in S2Responses :
          /\ s2_calls' = <<[model |-> model_name, resp |-> r]>>
          /\ IF r.kind = "raise"
             THEN s2_exit' = 1 /\ s2_pc' = "done" /\ UNCHANGED s2_data
             ELSE IF r.kind \in {"blank", "garbage"}
             THEN s2_exit' = 2 /\ s2_pc' = "done" /\ UNCHANGED s2_data
             ELSE /\ s2_data' = [src |-> "first", items |-> r.data]
                  /\ s2_pc' = IF has_groups(r.data) THEN "write" ELSE "call2"
                  /\ UNCHANGED s2_exit
    /\ UNCHANGED <<model_name, args_fallback, s2_written>>
    /\ UNCHANGED <<mergeVars, emitVars, parseVars, assembleVars>>
    /\ UNCHANGED <<step4Vars, pollVars, step3Vars>>

\* if not has_groups(data): the retry with alt_model; data2 chosen when it
\* has groups, else the heuristic fallback when args.fallback, else
\* SystemExit(2); any exception inside becomes SystemExit(2).
Step2Retry ==
    /\ s2_pc = "call2"
    /\ \E r \in S2Responses, h \in HeuristicLists, heuristic_raises \in BOOLEAN :
          /\ s2_calls' = Append(s2_calls, [model |-> AltModel(model_name), resp |-> r])
          /\ IF r.kind = "raise"
             THEN s2_exit' = 2 /\ s2_pc' = "done" /\ UNCHANGED s2_data
             ELSE IF has_groups(RetryData(r))
             THEN /\ s2_data' = [src |-> "retry", items |-> RetryData(r)]
                  /\ s2_pc' = "write"
                  /\ UNCHANGED s2_exit
             ELSE IF args_fallback /\ ~heuristic_raises
             THEN /\ s2_data' = [src |-> "heuristic", items |-> h]
                  /\ s2_pc' = "write"
                  /\ UNCHANGED s2_exit
             ELSE s2_exit' = 2 /\ s2_pc' = "done" /\ UNCHANGED s2_data
    /\ UNCHANGED <<model_name, args_fallback, s2_written>>
    /\ UNCHANGED <<mergeVars, emitVars, parseVars, assembleVars>>
    /\ UNCHANGED <<step4Vars, pollVars, step3Vars>>

\* with open(args.output, "w") as f: json.dump(data, f, ...)
Step2Write ==
    /\ s2_pc = "write"
    /\ s2_written' = TRUE
    /\ s2_exit' = 0
    /\ s2_pc' = "done"
    /\ UNCHANGED <<model_name, args_fallback, s2_calls, s2_data>>
    /\ UNCHANGED <<mergeVars, emitVars, parseVars, assembleVars>>
    /\ UNCHANGED <<step4Vars, pollVars, step3Vars>>

NextStep2 == Step2FirstCall \/ Step2Retry \/ Step2Write

SpecStep2 == InitStep2 /\ [][NextStep2]_vars


(***************************************************************************)
(* The retry loop of step3 grouping (Scripts/step3_group_metadata_         *)
(* gemini.py), followed by the assembly and the write of the output.  An   *)
(* attempt's call raises or returns a text, given by what                  *)
(* extract_json_array makes of it: "garbage" (it raises), "empty" (no      *)
(* text, read as "[]") or "array" with the group descriptors parsed.       *)
(* s3_attempts logs the outcome of each attempt made.                      *)
(***************************************************************************)
MaxAttempts == 3

S3Arrays == {<<>>, <<GroupAB>>, <<GroupNoDict, GroupAB>>, <<GroupNested>>}

S3Responses ==
    {[kind |-> k, data |-> <<>>] : k \in {"raise", "garbage", "empty"}}
    \cup {[kind |-> "array", data |-> d] : d \in S3Arrays}

\* the except clause is entered: the call or extract_json_array raised
AttemptFails(r) == r.kind \in {"raise", "garbage"}

\* for _ in range(3)
RetriesLeft(n) == n < MaxAttempts

InitStep3 ==
    /\ s3_pc = "attempt"
    /\ s3_attempts = <<>>
    /\ s3_exit = -1
    /\ s3_written = FALSE
    /\ llm_groups = <<>>
    /\ full_meta \in SeqsUpTo(MetaEntries, 2)
    /\ assembler = "none"
    /\ final_items = <<>>
    /\ asm_raised = FALSE
    /\ InitIdleMerge
    /\ InitIdleEmit
    /\ InitIdleParse
    /\ InitIdleStep4
    /\ InitIdlePoll
    /\ InitIdleStep2

\* one pass of the for loop: the call and extract_json_array; break on
\* success, else sleep and go on; the else clause of the loop raises
\* SystemExit with a message (exit status 1).
Step3Attempt ==
    /\ s3_pc = "attempt"
    /\ IF RetriesLeft(Len(s3_attempts))
       THEN \E r \in S3Responses :
              /\ s3_attempts' = Append(s3_attempts, r.kind)
              /\ IF AttemptFails(r)
                 THEN UNCHANGED <<s3_pc, llm_groups>>
                 ELSE s3_pc' = "assemble" /\ llm_groups' = r.data
              /\ UNCHANGED s3_exit
       ELSE /\ s3_exit' = 1
            /\ s3_pc' = "done"
            /\ UNCHANGED <<s3_attempts, llm_groups>>
    /\ UNCHANGED <<s3_written, full_meta, assembler, final_items, asm_raised>>
    /\ UNCHANGED <<mergeVars, emitVars, parseVars>>
    /\ UNCHANGED <<step4Vars, pollVars, step2Vars>>

\* the assembly and json.dump(final_items, f, ...); an exception of the
\* assembly ends the script (exit status 1) before the file is opened.
Step3AssembleAndWrite ==
    /\ s3_pc = "assemble"
    /\ assembler' = "step3"
    /\ final_items' = step3_assemble(llm_groups, full_meta).items
    /\ asm_raised' = step3_assemble(llm_groups, full_meta).raised
    /\ s3_written' = ~asm_raised'
    /\ s3_exit' = IF asm_raised' THEN 1 ELSE 0
    /\ s3_pc' = "done"
    /\ UNCHANGED <<s3_attempts, llm_groups, full_meta>>
    /\ UNCHANGED <<mergeVars, emitVars, parseVars>>
    /\ UNCHANGED <<step4Vars, pollVars, step2Vars>>

NextStep3 == Step3Attempt \/ Step3AssembleAndWrite

SpecStep3 == InitStep3 /\ [][NextStep3]_vars


(***************************************************************************)
(* Reference notions used to state the claims: the candidate tables as     *)
(* text.  Both headers carry the four key columns in positions 1..4.       *)
(***************************************************************************)
RawOf(file) == IF file.exists THEN file.rows ELSE <<>>
RawConcat == RawOf(gemini_csv) \o RawOf(claude_csv) \o RawOf(openai_csv)

\* The 4-field key of a table row, and of a written row.
RawKey(row) == [i \in 1..4 |-> IF i <= Len(row) THEN row[i] ELSE ""]
TextKey(cells) == SubSeq(cells, 1, 4)

\* The row as the five-column schema shows it: a cell the header or the row
\* does not have is empty.
RuleRowOf(row) ==
    [i \in 1..5 |-> IF i <= Len(row) /\ i <= Len(csv_header) THEN row[i] ELSE ""]

\* The rows of the concatenation whose key did not occur earlier, in order.
RECURSIVE FirstOccurrences(_, _)
FirstOccurrences(rows, i) ==
    IF i > Len(rows) THEN <<>>
    ELSE (IF \E j \in 1..(i - 1) : RawKey(rows[j]) = RawKey(rows[i])
          THEN <<>>
          ELSE <<RuleRowOf(rows[i])>>) \o FirstOccurrences(rows, i + 1)

PriorityUnion == FirstOccurrences(RawConcat, 1)

\* C1: priority-union (step4 without --gemini-merge, and 'all'): every row
\* of the merged output has the 4-field key of some row of an input table.
C1_NoInventionUnion ==
    command \in {"step4", "all"} =>
        \A i \in 1..Len(out_merged.rows) :
            \E j \in 1..Len(RawConcat) :
                TextKey(out_merged.rows[i]) = RawKey(RawConcat[j])

C1_Witness ==
    /\ command \in {"step4", "all"}
    /\ Len(out_merged.rows) = 2
    /\ Len(RawConcat) = 3
    /\ ~raised

\* C2: priority-union of step4: the merged output is exactly the
\* concatenation Gemini + Claude + OpenAI without the rows whose key occurred
\* earlier, in the same order; the row emitted for a key (with its Comment)
\* is the one of the earliest source.
C2_FirstOccurrenceOrder ==
    command = "step4" => out_merged.rows = PriorityUnion

\* primary [R1], secondary [R1', R3]: output [R1, R3] with R1's comment.
C2_Witness ==
    /\ command = "step4"
    /\ csv_header = HdrFull
    /\ RawOf(gemini_csv) = <<RowA1>>
    /\ RawOf(claude_csv) = <<RowA2, RowSwap>>
    /\ out_merged.rows = <<RowA1, RowSwap>>

\* The rows the backend returned, and those of them that pass validation:
\* their key is the key of a candidate row.
ReturnedRows == ParsedRows(resp.data)
InputKeys == {RawKey(RawConcat[j]) : j \in 1..Len(RawConcat)}
NoValidReturned ==
    \A i \in 1..Len(ReturnedRows) : KeyOf(ReturnedRows[i]) \notin InputKeys

\* C3: semantic reconciliation (both functions): whatever the backend
\* returns, every written row has the 4-tuple of some original row; a
\* returned row matching no original row is not written.
C3_NoInventionSemantic ==
    command \in {"step4-gemini-merge", "intelligent"} =>
        \A i \in 1..Len(out_merged.rows) : TextKey(out_merged.rows[i]) \in InputKeys

C3_Witness ==
    /\ command \in {"step4-gemini-merge", "intelligent"}
    /\ rc_merge = 0
    /\ resp.kind = "array"
    /\ resp.data = <<ObjInvented, ObjSwap>>
    /\ Len(out_merged.rows) = 1
    /\ TextKey(out_merged.rows[1]) = RawKey(RowSwap)

\* C4: step4 --gemini-merge: when the call raises, the response is empty or
\* unparseable, or validation leaves no row, the merged output written is
\* the priority-union of the input tables, provided some table has a row.
C4_FallbackOnEmpty ==
    (/\ command = "step4-gemini-merge"
     /\ RawConcat # <<>>
     /\ resp.kind \in {"raise", "garbage", "array"}
     /\ NoValidReturned)
        => /\ out_merged.exists
           /\ out_merged.rows = PriorityUnion

\* C5: the semantic reconciliation output has no two rows with the same
\* 4-tuple; the row kept for a key is the first returned row with it; and
\* when a Gemini row shares the key, the Comment written is the Comment of
\* the first such Gemini row.
FirstWithKey(rows, key) ==
    CHOOSE i \in 1..Len(rows) :
        /\ KeyOf(rows[i]) = key
        /\ \A j \in 1..(i - 1) : KeyOf(rows[j]) # key
FirstRawWithKey(rows, key) ==
    CHOOSE i \in 1..Len(rows) :
        /\ RawKey(rows[i]) = key
        /\ \A j \in 1..(i - 1) : RawKey(rows[j]) # key

C5_DedupPreferGemini ==
    (command \in {"step4-gemini-merge", "intelligent"} /\ rc_merge = 0) =>
        \A i \in 1..Len(out_merged.rows) :
            LET row == out_merged.rows[i]
                key == TextKey(row)
                gem == RawOf(gemini_csv)
            IN  /\ \A j \in 1..Len(out_merged.rows) :
                      TextKey(out_merged.rows[j]) = key => j = i
                /\ (\E g \in 1..Len(gem) : RawKey(gem[g]) = key)
                      => row[5] = RuleRowOf(gem[FirstRawWithKey(gem, key)])[5]
                /\ (/\ \A g \in 1..Len(gem) : RawKey(gem[g]) # key
                    /\ \E k \in 1..Len(ReturnedRows) : KeyOf(ReturnedRows[k]) = key)
                      => row[5] = ReturnedRows[FirstWithKey(ReturnedRows, key)]["Comment"]

C5_Witness ==
    /\ command \in {"step4-gemini-merge", "intelligent"}
    /\ rc_merge = 0
    /\ RawOf(gemini_csv) = <<RowA2, RowA1>>
    /\ resp.data = <<ObjNullComment, ObjSame>>
    /\ out_merged.rows = <<RowA2>>

\* C6: the identity key is the literal 4-tuple: two rows end up as one output
\* row iff their four key strings are equal, so every input row's key is the
\* key of exactly one output row; rows differing only in Comment share their
\* output row, rows differing in the order of Input Questions do not.
C6_LiteralKey ==
    command = "step4" =>
        \A j \in 1..Len(RawConcat) :
            Cardinality({i \in 1..Len(out_merged.rows) :
                            TextKey(out_merged.rows[i]) = RawKey(RawConcat[j])}) = 1

C6_Witness ==
    /\ command = "step4"
    /\ RawConcat = <<RowA1, RowSwap, RowA2>>
    /\ Len(out_merged.rows) = 2
    /\ out_merged.rows[1][3] = "A,B"
    /\ out_merged.rows[2][3] = "B,A"

\* C7: for every combination of present, absent and empty candidate tables
\* the step4 merge completes without error and leaves a merged output file
\* with the header row.
C7_AlwaysWritesHeader ==
    command \in {"step4", "step4-gemini-merge"} =>
        /\ ~raised
        /\ out_merged.exists

\* C8: every row of a merged output has the five fields as strings, a
\* missing field being empty, and a source record with surplus fields never
\* makes the merge fail (step4 merge, 'all' merge, semantic merge).
C8_RowNormalization ==
    command # "none" =>
        /\ ~raised
        /\ Len(out_merged.rows) = Len(merged)
        /\ \A i \in 1..Len(out_merged.rows) :
              /\ Len(out_merged.rows[i]) = 5
              /\ \A c \in 1..5 : out_merged.rows[i][c] # NoneVal

\* C9: the id of a recode entry does not depend on the order of the source
\* codes: two entries with the same target whose source lists are
\* permutations of each other have the same id.
Count(seq, x) == Cardinality({i \in 1..Len(seq) : seq[i] = x})
IsPermutation(a, b) ==
    /\ Len(a) = Len(b)
    /\ \A i \in 1..Len(a) : Count(a, a[i]) = Count(b, a[i])

C9_RecodeIdOrderFree ==
    emitted.called =>
        \A i, j \in 1..Len(emitted.recodings) :
            LET e == emitted.recodings[i]
                f == emitted.recodings[j]
            IN  (e.name = f.name /\ IsPermutation(e.codes, f.codes)) => e.id = f.id

C9_Witness ==
    /\ emitted.called
    /\ \E i, j \in 1..Len(emitted.recodings) :
          /\ emitted.recodings[i].name = "T"
          /\ emitted.recodings[j].name = "T"
          /\ emitted.recodings[i].codes = <<"A", "B">>
          /\ emitted.recodings[j].codes = <<"B", "A">>

\* C10: a group is emitted for an entry iff the entry has a sub_questions
\* list with at least min_columns resolvable (string) codes; every group has
\* at least min_columns columns, each the string code of a sub-entry of its
\* entry.
ResolvableSubs(item) ==
    {p \in 1..Len(item.subs.v) :
        item.subs.v[p].isdict /\ item.subs.v[p].code.ty = "str"}
Qualifying ==
    {i \in 1..Len(grouped_items) :
        /\ grouped_items[i].isdict
        /\ grouped_items[i].subs.ty = "list"
        /\ Cardinality(ResolvableSubs(grouped_items[i])) >= min_columns}
NthQualifying(k) ==
    CHOOSE i \in Qualifying : Cardinality({j \in Qualifying : j < i}) = k - 1

C10_GroupIffThreshold ==
    emitted.called =>
        /\ Len(emitted.groups) = Cardinality(Qualifying)
        /\ \A k \in 1..Len(emitted.groups) :
              LET g == emitted.groups[k]
                  item == grouped_items[NthQualifying(k)]
              IN  /\ Len(g.columns) >= min_columns
                  /\ \A c \in 1..Len(g.columns) :
                        \E p \in ResolvableSubs(item) : item.subs.v[p].code.v = g.columns[c]

C10_Witness ==
    /\ emitted.called
    /\ min_columns = 2
    /\ grouped_items = <<ItemOneResolvable, ItemPickAll>>
    /\ Len(emitted.groups) = 1
    /\ emitted.groups[1].columns = <<"A1r1", "A1r2">>

(***************************************************************************)
(* Reference notions for the recode annotations of the input list.         *)
(***************************************************************************)
\* An entry that can name the target of a recode: it has a question code
\* that is neither empty nor zero.
HasTargetCode(item) ==
    \/ item.code.ty = "str" /\ item.code.v # ""
    \/ item.code.ty = "num" /\ item.code.v # "0"

\* Entries with a recode_from list of their own.
AnnotatedEntries ==
    {i \in 1..Len(grouped_items) :
        /\ grouped_items[i].isdict
        /\ grouped_items[i].recode.ty = "list"
        /\ HasTargetCode(grouped_items[i])}

\* Sub-entries (entry index, position) with a recode_from list.
AnnotatedSubs ==
    {ip \in (1..Len(grouped_items)) \X (1..3) :
        LET item == grouped_items[ip[1]]
        IN  /\ item.isdict
            /\ item.subs.ty = "list"
            /\ ip[2] <= Len(item.subs.v)
            /\ item.subs.v[ip[2]].isdict
            /\ item.subs.v[ip[2]].recode.ty = "list"
            /\ item.subs.v[ip[2]].code.ty = "str"}

CodesOf(l) == [k \in 1..Len(l) |-> l[k].v]
TargetOf(item) == item.code.v

\* C11: an entry for which no group is emitted but which has a recode_from
\* list of its own (and a question code) has its recode entry in recodings,
\* once per such entry: the recode entries with its target and sources are as
\* many as the entries annotated with that target and those sources.
C11_BelowThresholdKeepsRecode ==
    emitted.called =>
        \A i \in AnnotatedEntries \ Qualifying :
            LET item == grouped_items[i]
            IN  Cardinality({k \in 1..Len(emitted.recodings) :
                    /\ emitted.recodings[k].name = TargetOf(item)
                    /\ emitted.recodings[k].codes = CodesOf(item.recode.v)})
                = Cardinality({j \in AnnotatedEntries :
                    /\ TargetOf(grouped_items[j]) = TargetOf(item)
                    /\ CodesOf(grouped_items[j].recode.v) = CodesOf(item.recode.v)})

C11_Witness ==
    /\ emitted.called
    /\ min_columns = 2
    /\ grouped_items = <<ItemRecodeGrid, ItemRecodeOneSub>>
    /\ emitted.groups = <<>>
    /\ Len(emitted.recodings) = 2
    /\ emitted.recodings[1].name = "G"
    /\ emitted.recodings[2].name = "T"
    /\ emitted.recodings[2].codes = <<"C">>

\* C12: recodings holds exactly one entry per recode_from annotation of the
\* input, on entries and on sub-entries alike, whatever the size of the
\* sub_questions list.
C12_OneRecodePerAnnotation ==
    emitted.called =>
        Len(emitted.recodings) = Cardinality(AnnotatedEntries) + Cardinality(AnnotatedSubs)

\* C13: groups follow the order of their entries and are numbered from 0;
\* the columns of a group are the string codes of its entry's sub-entries in
\* their original order, repetitions included.
NthResolvable(item, c) ==
    CHOOSE p \in ResolvableSubs(item) :
        Cardinality({q \in ResolvableSubs(item) : q < p}) = c - 1

C13_InputOrderPreserved ==
    emitted.called =>
        \A k \in 1..Len(emitted.groups) :
            LET g == emitted.groups[k]
                item == grouped_items[NthQualifying(k)]
            IN  /\ g.id = <<"group_", k - 1>>
                /\ Len(g.columns) = Cardinality(ResolvableSubs(item))
                /\ \A c \in 1..Len(g.columns) :
                      g.columns[c] = item.subs.v[NthResolvable(item, c)].code.v

C13_Witness ==
    /\ emitted.called
    /\ min_columns = 2
    /\ grouped_items = <<ItemUnordered, ItemPickAll>>
    /\ emitted.groups =
          << [id |-> <<"group_", 0>>, name |-> <<"Rank">>,
              columns |-> <<"A1r2", "A1r1", "A1r2">>],
             [id |-> <<"group_", 1>>, name |-> <<"Pick all">>,
              columns |-> <<"A1r1", "A1r2">>] >>

\* C14: every recode entry has at least one source code.
C14_RecodeHasSource ==
    emitted.called =>
        \A k \in 1..Len(emitted.recodings) : emitted.recodings[k].codes # <<>>

\* C15: the result for a list is the result for the same list without its
\* non-record entries and non-record sub-entries.
RECURSIVE WithoutNonRecords(_)
WithoutNonRecords(s) ==
    IF s = <<>> THEN <<>>
    ELSE (IF Head(s).isdict THEN <<Head(s)>> ELSE <<>>) \o WithoutNonRecords(Tail(s))

RECURSIVE Cleaned(_)
Cleaned(items) ==
    IF items = <<>> THEN <<>>
    ELSE LET item == Head(items)
         IN  (IF ~item.isdict THEN <<>>
              ELSE IF item.subs.ty # "list" THEN <<item>>
              ELSE <<[item EXCEPT !.subs.v = WithoutNonRecords(item.subs.v)]>>)
             \o Cleaned(Tail(items))

C15_MalformedSkipped ==
    emitted.called => emitted = emit_groups_and_recodes(Cleaned(grouped_items), min_columns)

(***************************************************************************)
(* Reference notions for the response parsers.                             *)
(***************************************************************************)
Occurrences(s, a, b, c) == Cardinality({i \in a..b : s[i] = c})
FirstOpen(s) ==
    IF \E i \in 1..Len(s) : s[i] = "["
    THEN CHOOSE i \in 1..Len(s) : s[i] = "[" /\ \A j \in 1..Len(s) : s[j] = "[" => i <= j
    ELSE 0
\* positions at which the depth counted from the first '[' is zero
ClosesAt(s) ==
    {j \in FirstOpen(s)..Len(s) :
        FirstOpen(s) # 0
        /\ Occurrences(s, FirstOpen(s), j, "[") = Occurrences(s, FirstOpen(s), j, "]")}
MatchingClose(s) ==
    IF ClosesAt(s) # {}
    THEN CHOOSE j \in ClosesAt(s) : \A k \in ClosesAt(s) : j <= k
    ELSE 0
DirectParseFails(t) == ~(loads(t).ok /\ loads(t).ty = "list")

\* C16: in the step2 grouping parser, when the text is not itself a JSON
\* array, the candidate is the text from the first '[' to the first later
\* ']' at which the depth counted from that '[' is back to zero, whatever
\* precedes and follows; a successful parse returns the value of that
\* candidate, and with no such ']' there is no candidate and the parse fails.
C16_CandidateIsFirstBalancedSpan ==
    (parser = "step2" /\ ~IsBlank(parsed.text) /\ DirectParseFails(parsed.text)) =>
        IF MatchingClose(parsed.text) # 0
        THEN /\ parsed.cand.found
             /\ parsed.cand.str =
                    SubSeq(parsed.text, FirstOpen(parsed.text), MatchingClose(parsed.text))
             /\ parsed.ok => parsed.src = parsed.cand.str
        ELSE ~parsed.cand.found /\ ~parsed.ok

C16_Witness ==
    /\ parser = "step2"
    /\ response_text = Fenced
    /\ parsed.ok
    /\ parsed.src = <<"[", "{", Quote, "a", Quote, ":", "1", "}", "]">>

\* C17: a parser that reports success returns an array, and that array is
\* the value of a bracketed span of the text; otherwise it reports failure.
IsArraySpan(t, i, j) ==
    /\ t[i] = "["
    /\ t[j] = "]"
    /\ loads(SubSeq(t, i, j)).ok

C17_FailureReported ==
    (parser # "none" /\ parsed.ok) =>
        /\ parsed.ty = "list"
        /\ \E i \in 1..Len(parsed.text) : \E j \in i..Len(parsed.text) :
              IsArraySpan(parsed.text, i, j) /\ parsed.src = SubSeq(parsed.text, i, j)

(***************************************************************************)
(* Reference notions for the assembly.                                     *)
(***************************************************************************)
MetaCodes == {full_meta[i].code : i \in 1..Len(full_meta)}
Composites == {i \in 1..Len(final_items) : final_items[i].kind = "composite"}
\* the metadata codes among the columns of a proposed group
Resolved(g) ==
    IF g.isdict /\ g.cols.ty = "list"
    THEN {g.cols.v[i] : i \in 1..Len(g.cols.v)} \cap MetaCodes
    ELSE {}
InViableGroup(code) ==
    \E k \in 1..Len(llm_groups) :
        code \in Resolved(llm_groups[k]) /\ Cardinality(Resolved(llm_groups[k])) >= 2

\* C18: in the assembled list every sub_question code of a composite is a
\* metadata code, every composite has at least 2 sub_questions, and a
\* metadata code whose proposed groups all resolve to fewer than 2 metadata
\* codes is a standalone item.
C18_CompositeInvariant ==
    (assembler # "none" /\ ~asm_raised) =>
        /\ \A i \in Composites : \A k \in 1..Len(final_items[i].sub_questions) :
              final_items[i].sub_questions[k].question_code \in MetaCodes
        /\ \A i \in Composites : Len(final_items[i].sub_questions) >= 2
        /\ \A c \in MetaCodes : ~InViableGroup(c) =>
              \E i \in 1..Len(final_items) :
                  final_items[i].kind = "standalone" /\ final_items[i].question_code = c

\* C20: when no candidate table has a row, a step4 run with the semantic
\* merge ends without an exception: the merge function returned a non-zero
\* code, no backend call was made and no merged file was written.
C20_NoInputReturnsNonZero ==
    (command = "step4-gemini-merge" /\ RawConcat = <<>>) =>
        /\ rc_merge \in {1, 2}
        /\ resp.kind \in {"none", "nosdk"}
        /\ ~out_merged.exists
        /\ ~raised

C20_Witness ==
    /\ command = "step4-gemini-merge"
    /\ gemini_csv = HeaderOnly
    /\ claude_csv = NoFile
    /\ openai_csv = HeaderOnly
    /\ rc_merge = 1
    /\ resp = NoResp
    /\ ~out_merged.exists

\* C25: every row written by gemini_semantic_merge_no_pdf equals, in all
\* five fields, some row of the Gemini, Claude or OpenAI tables.
C25_SemanticRowsAreInputRows ==
    (command = "step4-gemini-merge" /\ rc_merge = 0) =>
        \A i \in 1..Len(out_merged.rows) :
            \E j \in 1..Len(RawConcat) : out_merged.rows[i] = RuleRowOf(RawConcat[j])

\* C29: gemini_intelligent_merge, when the backend answered and none of the
\* rows it returned passes validation (an empty or unparseable answer
\* included) while some candidate table has a row: the function returns 0
\* and the rows written are the priority-union of Gemini + Claude + OpenAI.
C29_IntelligentFallsBack ==
    (/\ command = "intelligent"
     /\ RawConcat # <<>>
     /\ resp.kind \in {"garbage", "array"}
     /\ NoValidReturned)
        => /\ rc_merge = 0
           /\ out_merged.exists
           /\ out_merged.rows = PriorityUnion

C29_Witness ==
    /\ command = "intelligent"
    /\ resp.kind = "array"
    /\ resp.data = <<ObjInvented>>
    /\ RawOf(gemini_csv) = <<RowA1>>
    /\ RawOf(openai_csv) = <<RowA2>>
    /\ rc_merge = 0
    /\ out_merged.rows = <<RowA1>>

\* C26: the i-th group of a call has the id group_i, counted from 0 over the
\* entries that produce a group; an entry that produces none consumes no id,
\* and a later call numbers its groups from group_0 again.
GroupIds == [k \in 1..Len(emitted.groups) |-> emitted.groups[k].id]

C26_SequentialIds ==
    emitted.called =>
        GroupIds = [k \in 1..Cardinality(Qualifying) |-> <<"group_", k - 1>>]

C26_Witness ==
    /\ invocations = 2
    /\ min_columns = 2
    /\ grouped_items = <<ItemOneSub, ItemPickAll>>
    /\ GroupIds = << <<"group_", 0>> >>

\* C24: a malformed group descriptor (no record, columns no list, fewer than
\* 2 columns, a column that is no string) never aborts either assembly.
C24_MalformedNeverAborts ==
    assembler # "none" => ~asm_raised

\* C27 (reference definitions): the metadata positions, the proposed group
\* that claims a position last, and the records of the assembled list.
ValidDesc(g) == g.isdict /\ g.cols.ty = "list" /\ Len(g.cols.v) >= 2
ClaimsCode(g, c) ==
    ValidDesc(g) /\ \E i \in 1..Len(g.cols.v) : JStr(StrOf(g.cols.v[i])) = c
CodeAt(p) == JStr(StrOf(full_meta[p].code))
Claimants(p) == {k \in 1..Len(llm_groups) : ClaimsCode(llm_groups[k], CodeAt(p))}
LastClaimant(p) == CHOOSE k \in Claimants(p) : \A j \in Claimants(p) : j <= k
ContainerOf(p) ==
    LET g == llm_groups[LastClaimant(p)]
    IN  IF Truthy(g.code) THEN g.code ELSE JStr("GROUP")
Grouped == {p \in 1..Len(full_meta) : Claimants(p) # {}}
Ungrouped == {p \in 1..Len(full_meta) : Claimants(p) = {}}
MembersOf(gcode) == {p \in Grouped : ContainerOf(p) = gcode}
NthOf(S, n) == CHOOSE x \in S : Cardinality({y \in S : y < x}) = n - 1
Standalones == {i \in 1..Len(final_items) : final_items[i].kind = "standalone"}
Carried(p, pa) == full_meta[p].pa # "absent" => pa = full_meta[p].pa

\* the metadata position of the first record of item i
FirstRecord(i) ==
    IF final_items[i].kind = "composite"
    THEN NthOf(MembersOf(final_items[i].question_code), 1)
    ELSE NthOf(Ungrouped, Cardinality({j \in Standalones : j <= i}))

\* every metadata position is one standalone item or one sub_question of
\* the composite of its last claimant, in metadata order within each
\* composite and among the standalone items, possible_answers carried over
PlacedOnce ==
    /\ Cardinality(Standalones) = Cardinality(Ungrouped)
    /\ \A i \in Standalones :
          LET p == NthOf(Ungrouped, Cardinality({j \in Standalones : j <= i}))
          IN  /\ final_items[i].question_code = CodeAt(p)
              /\ Carried(p, final_items[i].possible_answers)
    /\ {final_items[i].question_code : i \in Composites} = {ContainerOf(p) : p \in Grouped}
    /\ \A i, j \in Composites :
          final_items[i].question_code = final_items[j].question_code => i = j
    /\ \A i \in Composites :
          LET subs == final_items[i].sub_questions
              members == MembersOf(final_items[i].question_code)
          IN  /\ Len(subs) = Cardinality(members)
              /\ \A k \in 1..Len(subs) :
                    /\ subs[k].question_code = CodeAt(NthOf(members, k))
                    /\ Carried(NthOf(members, k), subs[k].possible_answers)

\* the question codes of the records of the assembled list, as they are read
RECURSIVE FlatCodes(_)
FlatCodes(items) ==
    IF items = <<>> THEN <<>>
    ELSE LET it == Head(items)
         IN  (IF it.kind = "composite"
              THEN [k \in 1..Len(it.sub_questions) |-> it.sub_questions[k].question_code]
              ELSE <<it.question_code>>) \o FlatCodes(Tail(items))

\* the question codes of the metadata list are pairwise distinct
DistinctMetaCodes ==
    \A p, q \in 1..Len(full_meta) : full_meta[p].code = full_meta[q].code => p = q

Spawned == {procs[i] : i \in 1..Len(procs)}
RowsReadOf(b) == IF b = "gemini" THEN rows_g ELSE IF b = "claude" THEN rows_c ELSE rows_o
FailedBackends == {b \in Spawned : proc[b].code # 0 \/ ~FileOf(b).exists}

\* C21: when exactly one backend process exited non-zero or left no
\* readable file, step4 treats its table as empty, merges and writes over
\* the rows of the other backends, and returns non-zero iff some backend
\* process exited non-zero.
C21_FailingBackendAbsorbed ==
    (s4_pc = "done" /\ Cardinality(FailedBackends) = 1) =>
        /\ \A b \in FailedBackends : RowsReadOf(b) = <<>>
        /\ (\E b \in Spawned \ FailedBackends : FileOf(b).rows # <<>>) => out_merged.exists
        /\ (rc_overall # 0) <=> (\E b \in Spawned : proc[b].code # 0)

\* C22: the merge never interleaves with the backends: from the first read
\* on every spawned backend process has ended, and the rows the merge worked
\* on are the tables as the backends left them.
C22_ReadsAfterAllExited ==
    /\ (s4_pc \in {"read_gemini", "read_claude", "read_openai", "merge", "done", "raised"}) =>
          \A b \in Spawned : proc[b].st = "exited"
    /\ (s4_pc \in {"merge", "done", "raised"}) =>
          /\ rows_g = read_rows(gemini_csv)
          /\ rows_c = read_rows(claude_csv)
          /\ rows_o = read_rows(openai_csv)

C22_Witness ==
    /\ s4_pc = "done"
    /\ opus
    /\ Spawned = Backends
    /\ \A b \in Backends : proc[b].opened /\ proc[b].code = 0
    /\ gemini_csv.rows = <<RowA1>>
    /\ claude_csv.rows = <<RowSwap>>
    /\ openai_csv.rows = <<RowA1>>
    /\ Len(out_merged.rows) = 2

\* the longest sleep of the model
MaxSleep == CHOOSE x \in SleepSeconds : \A y \in SleepSeconds : y <= x

\* C23: every upload-polling loop terminates: a loop still polling is never
\* more than one sleep past its timeout, it ends ready exactly when the
\* state returned is ACTIVE, SUCCEEDED or READY, an end by timeout comes
\* only after the timeout has elapsed, with a failure or (intelligent merge)
\* without the file part, and every loop ends.
C23_PollingTerminates ==
    /\ [](poll_pc = "polling" => now <= TimeoutOf(poll_loop) + MaxSleep)
    /\ [](poll_pc \notin {"idle", "polling"} =>
             /\ (poll_pc = "ready") <=> (file_state \in ReadyStates)
             /\ (poll_pc = "timeout") =>
                   (poll_loop # "intelligent" /\ now > TimeoutOf(poll_loop))
             /\ (poll_pc = "no_file_part") =>
                   /\ poll_loop = "intelligent"
                   /\ now > TimeoutOf(poll_loop) \/ file_state = GetRaises)
    /\ <>(poll_pc # "polling")

C23_Witness ==
    /\ poll_loop = "step2_group"
    /\ poll_pc = "timeout"
    /\ file_state = "PROCESSING"
    /\ now = 91
    /\ polls = 92

(***************************************************************************)
(* Reference notions for the step2 grouping retry protocol.                *)
(***************************************************************************)
\* the response has been parsed to a list
ParsedToList(r) == r.kind \in {"array", "empty"}
\* a parsed list holds a Composite with at least 2 sub_questions
HasComposite(r) ==
    r.kind = "array" /\ \E i \in 1..Len(r.data) : r.data[i].isdict /\ r.data[i].subs >= 2
RetryMade == Len(s2_calls) = 2
ChosenHasComposite ==
    \/ s2_data.src = "first" /\ HasComposite(s2_calls[1].resp)
    \/ s2_data.src = "retry" /\ RetryMade /\ HasComposite(s2_calls[2].resp)
CallsAndWrite ==
    /\ Len(s2_calls) <= 2
    /\ RetryMade <=> (ParsedToList(s2_calls[1].resp) /\ ~HasComposite(s2_calls[1].resp))
    /\ RetryMade =>
          /\ s2_calls[2].model # s2_calls[1].model
          /\ s2_calls[1].model = "gemini-2.5-pro" => s2_calls[2].model = "gemini-2.5-flash"
          /\ s2_calls[1].model = "gemini-2.5-flash" => s2_calls[2].model = "gemini-2.5-pro"
    /\ s2_written =>
          (ChosenHasComposite \/ (args_fallback /\ RetryMade /\ s2_data.src = "heuristic"))

\* C28 (as stated): at most two calls, the second iff the first parsed
\* response has no Composite of 2 sub_questions and with the other model;
\* the output is written only for a chosen response with such a Composite
\* or the heuristic fallback; otherwise the script exits with code 2
\* without writing.
C28_RetryProtocolExit2 ==
    s2_pc = "done" =>
        /\ CallsAndWrite
        /\ ~s2_written => s2_exit = 2

\* C28 (amended): the same, the script exiting without writing with code
\* 2, or with the uncaught exception of the first call (exit status 1).
C28_RetryProtocol ==
    s2_pc = "done" =>
        /\ CallsAndWrite
        /\ s2_written => s2_exit = 0
        /\ ~s2_written =>
              IF s2_calls[1].resp.kind = "raise" THEN s2_exit = 1 ELSE s2_exit = 2

C28_Witness ==
    /\ s2_pc = "done"
    /\ s2_written
    /\ Len(s2_calls) = 2
    /\ s2_calls[1].model = "gemini-2.5-pro"
    /\ s2_calls[1].resp = [kind |-> "array", data |-> <<S2OneSub, S2Standalone>>]
    /\ s2_calls[2].model = "gemini-2.5-flash"
    /\ s2_calls[2].resp = [kind |-> "array", data |-> <<S2Composite>>]
    /\ s2_data.src = "retry"

(***************************************************************************)
(* Reference notions for the step3 grouping retry loop.                    *)
(***************************************************************************)
FailedAttempt(kind) == kind \in {"raise", "garbage"}
AllAttemptsFailed ==
    /\ Len(s3_attempts) = 3
    /\ \A i \in 1..3 : FailedAttempt(s3_attempts[i])

\* C30: step3 grouping makes at most 3 attempts, an attempt failing when
\* the call raises or no JSON array can be read; no attempt follows a
\* successful one; the script exits with a failure iff all 3 attempts
\* failed, and then writes no output file.
C30_ThreeAttempts ==
    s3_pc = "done" =>
        /\ Len(s3_attempts) <= 3
        /\ \A i \in 1..(Len(s3_attempts) - 1) : FailedAttempt(s3_attempts[i])
        /\ (s3_exit # 0) <=> AllAttemptsFailed
        /\ AllAttemptsFailed => ~s3_written

====
